---- MODULE Spec2Model ----
(***************************************************************************)
(* A model of the atlas-backend authentication and authorization gate:     *)
(* authenticateToken / requireRole (middleware/auth.js, kept in src/db.js  *)
(* lines 238-348), the API-key routes (routes/api_keys.js, kept in         *)
(* src/unnamed/part_000), registration (routes/auth.js) and the user       *)
(* administration routes (routes/users.js, kept in src/routes/tags.js      *)
(* lines 117-246), over the Supabase tables profiles and api_keys.         *)
(*                                                                         *)
(* Requests are handled one after the other.  A request runs through its   *)
(* Express chain: authenticateToken first (one action), and, when that     *)
(* calls next(), the rest of the chain of the route (one action: the role  *)
(* guard, if the route has one, and the route's handler).  `last` is the   *)
(* record of the request handled last, or being handled: what it carried,  *)
(* what was attached to req, what was answered, and which db_helpers /     *)
(* table operations were awaited.                                          *)
(*                                                                         *)
(* Time is a counter of clock readings.  Every request awaits at least one *)
(* round trip to the hosted database, and a round trip takes at least one  *)
(* clock reading: a request handled in a state with clock `now` reads the  *)
(* time now + 1 (jwt.verify, jwt.sign, new Date()).                        *)
(***************************************************************************)
EXTENDS Integers, Sequences, FiniteSets, TLC

\* ------------------------------------------------------------------ bounds
MaxUsers == 2        \* profiles ever inserted (ids 1..MaxUsers)
MaxKeys == 1         \* api_keys rows ever inserted (ids 1..MaxKeys)
MaxContent == 2      \* content rows ever inserted (ids 1..MaxContent)
MaxName == 2         \* characters of a tag name
MaxRaw == 2          \* distinct strings a client may send as X-API-Key
MaxTime == 5         \* clock readings
JWT_EXPIRES_IN == 3  \* '7d' of routes/auth.js line 9, in clock readings

\* --------------------------------------------------------------- constants
Roles == {"admin", "contributor", "viewer"}

UserIds == 1..MaxUsers
KeyIds == 1..MaxKeys
RawKeys == 1..MaxRaw
Identities == 1..MaxUsers

\* The i-th identity a client registers with: its username and its email.
Username(i) == i
Email(i) == 10 + i

\* JavaScript's undefined / null for req.user and for a row that is absent.
NoUser == [id |-> 0, username |-> 0, email |-> 0, role |-> ""]
NoKeyRecord == [id |-> 0, user_id |-> 0, key_hash |-> 0, last_used_at |-> 0,
                username |-> 0, email |-> 0, role |-> ""]

\* Words of an Authorization header.  A JWT is its payload {userId,
\* username, role, iat, exp} and whether its signature verifies under JWT_SECRET.
Undefined == [sig |-> "undefined", userId |-> 0, username |-> 0, role |-> "",
     iat |-> 0, exp |-> 0]
SchemeWord == [sig |-> "scheme", userId |-> 0, username |-> 0, role |-> "",
     iat |-> 0, exp |-> 0]
Garbage == [sig |-> "bad", userId |-> 0, username |-> 0, role |-> "",
     iat |-> 0, exp |-> 0]

\* req.headers['x-api-key']: undefined when the header is absent, '' when it
\* is sent empty, else the string it holds (a number of RawKeys).
NoApiKey == 0
EmptyApiKey == -1

VARIABLES
    profiles,    \* table profiles: id -> [username, email, role]
    apiKeys,     \* table api_keys: set of [id, user_id, key_hash, last_used_at]
    issued,      \* the tokens jwt.sign has produced (the signed payloads)
    disclosed,   \* the raw keys POST /api/keys has returned: [key, id of its row]
    nextUserId,  \* ids handed out by the profiles table
    nextKeyId,   \* ids handed out by the api_keys table
    now,         \* the clock
    pc,          \* "idle", or "authed": authenticateToken has called next()
    last,        \* the request handled last, or being handled
    content,     \* table content: set of [id, author_id, status, featured, view_count]
    tags,        \* table tags: set of [id, name, slug]
    nextContentId,  \* ids handed out by the content table
    nextTagId    \* ids handed out by the tags table

vars == <<profiles, apiKeys, issued, disclosed, nextUserId, nextKeyId, now, pc, last,
          content, tags, nextContentId, nextTagId>>

\* The time a request arriving in this state reads.
clock == now + 1

\* ------------------------------------------------- store operations (db.js)
\* The operations a request can await.  A request's `fault` names the one
\* operation whose Supabase call answers an error other than PGRST116
\* ("none": the store answers every call).
StoreOps == {"getUserById", "getApiKeyByHash", "updateApiKeyLastUsed",
             "createApiKey", "getApiKeysByUser", "deleteApiKey",
             "getUserByEmailOrUsername",
             "getUserCount", "createUser", "profiles.select",
             "profiles.update", "profiles.delete"}

\* The faults authenticateToken can meet: those of the operations it awaits.
GateFaults == {"none", "getUserById", "getApiKeyByHash", "updateApiKeyLastUsed"}

\* db_helpers.getUserById: .eq('id', id).single(); PGRST116 gives null.
getUserById(id) ==
    IF id \in DOMAIN profiles
    THEN [id |-> id, username |-> profiles[id].username,
          email |-> profiles[id].email, role |-> profiles[id].role]
    ELSE NoUser

\* A digest that keeps too little of the key: every key has the same one.
Sha256Collapsed(key) == 1

\* crypto.createHash('sha256').update(key).digest('hex'): one-way and
\* injective on the strings of the model; no string is its own digest.
Sha256(key) == 2 * key + 1

\* db_helpers.getApiKeyByHash: .eq('key_hash', keyHash).single() with the
\* owner's profile joined; no row, or more than one, is PGRST116: null.
getApiKeyByHash(keyHash) ==
    LET rows == {r \in apiKeys : r.key_hash = keyHash}
    IN  IF Cardinality(rows) # 1 THEN NoKeyRecord
        ELSE LET data == CHOOSE r \in rows : TRUE
                 owner == getUserById(data.user_id)
             IN  [id |-> data.id, user_id |-> data.user_id,
                  key_hash |-> data.key_hash, last_used_at |-> data.last_used_at,
                  username |-> owner.username, email |-> owner.email,
                  role |-> owner.role]

\* An update that writes nothing.
updateApiKeyLastUsedNoop(keys, id) == keys

\* An update with no filter: every row is stamped.
updateApiKeyLastUsedAll(keys, id) ==
    {[r EXCEPT !.last_used_at = clock] : r \in keys}

\* An update of api_keys with no filter: every row is given the value.
apiKeysUpdateAll(keys, id, lastUsedAt) ==
    {[r EXCEPT !.last_used_at = lastUsedAt] : r \in keys}

\* supabase.from('api_keys').update({last_used_at}).eq('id', id), as the
\* database applies it.
apiKeysUpdate(keys, id, lastUsedAt) ==
    {IF r.id = id THEN [r EXCEPT !.last_used_at = lastUsedAt] ELSE r : r \in keys}

\* db_helpers.updateApiKeyLastUsed: update({last_used_at: new Date()}).eq('id', id)
updateApiKeyLastUsed(keys, id) == apiKeysUpdate(keys, id, clock)

\* db_helpers.createApiKey: insert([{user_id, name, key_hash}]); the row's
\* last_used_at is null.
createApiKey(keys, userId, keyHash) ==
    keys \cup {[id |-> nextKeyId, user_id |-> userId, key_hash |-> keyHash,
                last_used_at |-> 0]}

\* A delete filtered on the owner alone: delete().eq('user_id', userId).
deleteApiKeyOfUser(keys, id, userId) ==
    LET gone == {r \in keys : r.user_id = userId}
    IN  [keys |-> keys \ gone,
         changes |-> Cardinality({r \in gone : r.id = id})]

\* A delete that filters on the id alone: delete().eq('id', id).
deleteApiKeyById(keys, id, userId) ==
    LET gone == {r \in keys : r.id = id}
    IN  [keys |-> keys \ gone, changes |-> Cardinality(gone)]

\* db_helpers.deleteApiKey: delete().eq('id', id).eq('user_id', userId);
\* the rows left and the count of rows deleted.
deleteApiKey(keys, id, userId) ==
    LET gone == {r \in keys : r.id = id /\ r.user_id = userId}
    IN  [keys |-> keys \ gone, changes |-> Cardinality(gone)]

\* ------------------------------------------- middleware (middleware/auth.js)
\* A slip of the index: authHeader.split(' ')[2].
TokenOfThirdWord(authHeader) ==
    IF Len(authHeader) >= 3 THEN authHeader[3] ELSE Undefined

\* authHeader && authHeader.split(' ')[1]: the header is the sequence of its
\* space-separated words; absent, it is the empty sequence.
TokenOf(authHeader) ==
    IF Len(authHeader) >= 2 THEN authHeader[2] ELSE Undefined

\* if (token): undefined and '' are falsy.
Truthy(token) == token.sig \notin {"undefined", "empty"}

\* if (apiKey): undefined and '' are falsy.
TruthyKey(apiKey) == apiKey \notin {NoApiKey, EmptyApiKey}

\* A verification that never finds a token expired: {ignoreExpiration: true}.
jwtVerifyIgnoreExpiration(token) ==
    IF token.sig # "good" THEN "JsonWebTokenError" ELSE "ok"

\* jwt.verify(token, JWT_SECRET): throws JsonWebTokenError unless the
\* signature verifies, TokenExpiredError once the clock has reached exp.
jwtVerify(token) ==
    IF token.sig # "good" THEN "JsonWebTokenError"
    ELSE IF clock >= token.exp THEN "TokenExpiredError"
    ELSE "ok"

\* A principal built from the token's claims once the user is known to exist.
TokenUserFromClaims(decoded) ==
    IF getUserById(decoded.userId) = NoUser THEN NoUser
    ELSE [getUserById(decoded.userId) EXCEPT !.username = decoded.username,
                                             !.role = decoded.role]

\* jwt.verify's payload, then db_helpers.getUserById(decoded.userId).
TokenUser(decoded) == getUserById(decoded.userId)

\* A request that is never taken to have a principal.
AttachedNever(req) == FALSE

\* if (req.user): a principal is attached already.
Attached(req) == req.user # NoUser

\* What authenticateToken leaves behind: req.user and req.authType, whether
\* it called next(), the response it sent (status 0: none), the store
\* operations it awaited, the one that threw, the api_keys table, and the
\* last_used_at of the keyRecord it found (0: null, or no record).
Outcome(user, authType, next, status, error, ops, failed, keys, prior) ==
    [user |-> user, authType |-> authType, next |-> next, status |-> status,
     error |-> error, ops |-> ops, failed |-> failed, keys |-> keys,
     prior |-> prior]

authenticateToken(req, fault) ==
    LET authHeader == req.authHeader
        apiKey == req.apiKey
        token == TokenOf(authHeader)
    IN
    IF Attached(req)
    THEN \* if (req.user) return next(): nothing is read, nothing assigned
         Outcome(req.user, req.authType, TRUE, 0, "", <<>>, "none", apiKeys, 0)
    ELSE IF Truthy(token)
    THEN \* Try JWT first
         IF jwtVerify(token) # "ok"
         THEN Outcome(NoUser, "", FALSE, 403, "Invalid or expired token",
                      <<>>, "none", apiKeys, 0)
         ELSE IF fault = "getUserById"
         THEN Outcome(NoUser, "", FALSE, 403, "Invalid or expired token",
                      <<"getUserById">>, "getUserById", apiKeys, 0)
         ELSE IF TokenUser(token) = NoUser
         THEN Outcome(NoUser, "", FALSE, 401, "Invalid token: user not found",
                      <<"getUserById">>, "none", apiKeys, 0)
         ELSE Outcome(TokenUser(token), "jwt", TRUE, 0, "",
                      <<"getUserById">>, "none", apiKeys, 0)
    ELSE IF TruthyKey(apiKey)
    THEN \* Try API Key if no JWT
         IF fault = "getApiKeyByHash"
         THEN Outcome(NoUser, "", FALSE, 500,
                      "Internal server error during authentication",
                      <<"getApiKeyByHash">>, "getApiKeyByHash", apiKeys, 0)
         ELSE LET keyRecord == getApiKeyByHash(Sha256(apiKey))
                  user == [id |-> keyRecord.user_id, username |-> keyRecord.username,
                           email |-> keyRecord.email, role |-> keyRecord.role]
              IN  IF keyRecord = NoKeyRecord
                  THEN Outcome(NoUser, "", FALSE, 401, "Invalid API key",
                               <<"getApiKeyByHash">>, "none", apiKeys, 0)
                  ELSE IF fault = "updateApiKeyLastUsed"
                  THEN \* req.user and req.authType are already set
                       Outcome(user, "apikey", FALSE, 500,
                               "Internal server error during authentication",
                               <<"getApiKeyByHash", "updateApiKeyLastUsed">>,
                               "updateApiKeyLastUsed", apiKeys,
                               keyRecord.last_used_at)
                  ELSE Outcome(user, "apikey", TRUE, 0, "",
                               <<"getApiKeyByHash", "updateApiKeyLastUsed">>,
                               "none", updateApiKeyLastUsed(apiKeys, keyRecord.id),
                               keyRecord.last_used_at)
    ELSE Outcome(NoUser, "", FALSE, 401, "Authentication required",
                 <<>>, "none", apiKeys, 0)

\* A guard that leaves out `if (!req.user)`: a request without a principal
\* falls through to the role test.
requireRoleUnchecked(allowedRoles, req) ==
    IF req.user.role \notin allowedRoles
    THEN [req EXCEPT !.guard = "stopped", !.status = 403,
                     !.error = "Insufficient permissions"]
    ELSE [req EXCEPT !.guard = "next"]

\* requireRole(...allowedRoles): the middleware it returns, run on the
\* request `req`; guard tells whether it called next() or answered.
requireRole(allowedRoles, req) ==
    IF req.user = NoUser
    THEN [req EXCEPT !.guard = "stopped", !.status = 401,
                     !.error = "Authentication required"]
    ELSE IF req.user.role \notin allowedRoles
    THEN [req EXCEPT !.guard = "stopped", !.status = 403,
                     !.error = "Insufficient permissions"]
    ELSE [req EXCEPT !.guard = "next"]

\* An optional gate that is the strict one: it rejects, and tries the key.
optionalAuthStrict(req, fault) == authenticateToken(req, fault)

\* optionalAuth: the token path alone; every failure ends in next() with
\* req.user as it was.  req.authType is never assigned, X-API-Key never read.
optionalAuth(req, fault) ==
    LET token == TokenOf(req.authHeader)
    IN
    IF ~Truthy(token)
    THEN Outcome(req.user, req.authType, TRUE, 0, "", <<>>, "none", apiKeys, 0)
    ELSE IF jwtVerify(token) # "ok"
    THEN \* caught: token invalid, but that's okay for optional auth
         Outcome(req.user, req.authType, TRUE, 0, "", <<>>, "none", apiKeys, 0)
    ELSE IF fault = "getUserById"
    THEN Outcome(req.user, req.authType, TRUE, 0, "",
                 <<"getUserById">>, "getUserById", apiKeys, 0)
    ELSE IF TokenUser(token) = NoUser
    THEN Outcome(req.user, req.authType, TRUE, 0, "",
                 <<"getUserById">>, "none", apiKeys, 0)
    ELSE Outcome(TokenUser(token), req.authType, TRUE, 0, "",
                 <<"getUserById">>, "none", apiKeys, 0)

\* ------------------------------------------------------------ the requests
\* What a client can send as Authorization: no header, the scheme alone, a
\* string that is no token of this server (malformed or forged), or a token
\* this server has signed.
AuthHeaders ==
    {<<>>, <<SchemeWord>>, <<SchemeWord, Garbage>>}
        \cup {<<SchemeWord, t>> : t \in issued}

\* What a client can send as X-API-Key: nothing, or any string.
ApiKeyHeaders == {NoApiKey, EmptyApiKey} \cup RawKeys

\* A request as it arrives: nothing is attached, nothing has run.
\*   authHeader, apiKey  the headers it carries
\*   user, authType      req.user, req.authType
\*   next                authenticateToken called next()
\*   prior               last_used_at of the keyRecord authenticateToken found
\*   route               the route whose chain ran after authenticateToken
\*   allowed, guard      the roles of its role guard, and what the guard did
\*                       ("none": no guard ran, "next", "stopped")
\*   param, role         the route parameter (or the id or key of a 201
\*                       response) and the role of the body (or response)
\*   status, error       the response (status 0: none yet)
\*   body                the records of the response's JSON body that come
\*                       from the api_keys or content table, or hold a key
\*   ops, failed         the store operations awaited; the one that threw
\*   time                the clock reading of the request
Request(authHeader, apiKey) ==
    [authHeader |-> authHeader, apiKey |-> apiKey,
     user |-> NoUser, authType |-> "", next |-> FALSE, prior |-> 0,
     route |-> "", allowed |-> {}, guard |-> "none",
     param |-> 0, role |-> "", status |-> 0, error |-> "", body |-> {},
     ops |-> <<>>, failed |-> "none", time |-> clock]

NoRequest == [Request(<<>>, NoApiKey) EXCEPT !.time = 0]

\* The ways authenticateToken can end for one fresh request: the store
\* answers every call it awaits, or one of them fails.
GateOutcomes(authHeader, apiKey) ==
    {authenticateToken(Request(authHeader, apiKey), fault) : fault \in GateFaults}

\* The ways optionalAuth can end for one fresh request.
OptionalOutcomes(authHeader, apiKey) ==
    {optionalAuth(Request(authHeader, apiKey), fault) :
        fault \in {"none", "getUserById"}}

\* The request `req` after its route's handler has answered.
Respond(req, route, param, role, status, error, ops, failed) ==
    [req EXCEPT !.route = route, !.param = param, !.role = role,
                !.status = status, !.error = error, !.ops = req.ops \o ops,
                !.failed = failed]

\* The request `req` of a route with a role guard, after the guard.
Guarded(req, route, allowedRoles) ==
    [requireRole(allowedRoles, req) EXCEPT !.route = route, !.allowed = allowedRoles]

Init ==
    /\ profiles = <<>>
    /\ apiKeys = {}
    /\ issued = {}
    /\ disclosed = {}
    /\ nextUserId = 1
    /\ nextKeyId = 1
    /\ content = {}
    /\ tags = {}
    /\ nextContentId = 1
    /\ nextTagId = 1
    /\ now = 0
    /\ pc = "idle"
    /\ last = NoRequest

\* authenticateToken on a fresh request, as the first middleware of
\* GET /api/auth/me, of /api/keys and of /api/users.
Authenticate ==
    \E authHeader \in AuthHeaders, apiKey \in ApiKeyHeaders :
      \E g \in GateOutcomes(authHeader, apiKey) :
        /\ pc = "idle"
        /\ now < MaxTime
        /\ now' = clock
        /\ apiKeys' = g.keys
        /\ last' = [Request(authHeader, apiKey) EXCEPT
                        !.user = g.user, !.authType = g.authType,
                        !.next = g.next, !.prior = g.prior,
                        !.status = g.status, !.error = g.error,
                        !.ops = g.ops, !.failed = g.failed]
        /\ pc' = IF g.next THEN "authed" ELSE "idle"
        /\ UNCHANGED <<profiles, issued, disclosed, nextUserId, nextKeyId, content, tags, nextContentId, nextTagId>>

\* optionalAuth on a fresh request, as the first middleware of
\* GET /api/content and GET /api/content/:id.  last.route names the
\* middleware: the handlers behind it are not part of this model.
OptionalAuth ==
    \E authHeader \in AuthHeaders, apiKey \in ApiKeyHeaders :
      \E g \in OptionalOutcomes(authHeader, apiKey) :
        /\ pc = "idle"
        /\ now < MaxTime
        /\ now' = clock
        /\ apiKeys' = g.keys
        /\ last' = [Request(authHeader, apiKey) EXCEPT
                        !.route = "optionalAuth",
                        !.user = g.user, !.authType = g.authType,
                        !.next = g.next, !.prior = g.prior,
                        !.status = g.status, !.error = g.error,
                        !.ops = g.ops, !.failed = g.failed]
        /\ UNCHANGED <<profiles, issued, disclosed, nextUserId, nextKeyId, content, tags, nextContentId, nextTagId, pc>>

\* GET /api/auth/me: res.json({user: req.user}).
GetMe ==
    /\ pc = "authed"
    /\ pc' = "idle"
    /\ last' = Respond(last, "GET /api/auth/me", 0, "", 200, "", <<>>, "none")
    /\ UNCHANGED <<profiles, apiKeys, issued, disclosed, nextUserId, nextKeyId, content, tags, nextContentId, nextTagId, now>>

\* GET /api/users: requireRole('admin'), then select('*') from profiles.
ListUsers ==
    LET route == "GET /api/users"
        req == Guarded(last, route, {"admin"})
    IN  /\ pc = "authed"
        /\ pc' = "idle"
        /\ \/ /\ req.guard = "stopped"
              /\ last' = req
           \/ /\ req.guard = "next"
              /\ last' = Respond(req, route, 0, "", 500, "Failed to fetch users",
                                 <<"profiles.select">>, "profiles.select")
           \/ /\ req.guard = "next"
              /\ last' = Respond(req, route, 0, "", 200, "",
                                 <<"profiles.select">>, "none")
        /\ UNCHANGED <<profiles, apiKeys, issued, disclosed, nextUserId, nextKeyId, content, tags, nextContentId, nextTagId, now>>

\* db_helpers.getUserByEmailOrUsername: .or(email.eq.X,username.eq.X).single();
\* the id of the one matching row, 0 (null) for none or for several.
getUserByEmailOrUsername(identifier) ==
    LET rows == {id \in DOMAIN profiles :
                    \/ profiles[id].email = identifier
                    \/ profiles[id].username = identifier}
    IN  IF Cardinality(rows) = 1 THEN CHOOSE id \in rows : TRUE ELSE 0

\* db_helpers.getUserCount: select('id', {count: 'exact', head: true}).
getUserCount == Cardinality(DOMAIN profiles)

\* A registration that makes every user an admin.
RegisterRoleAdmin(count) == "admin"

\* routes/auth.js lines 45-46: the first user is admin, the rest are viewers.
RegisterRole(count) == IF count = 0 THEN "admin" ELSE "viewer"

\* db_helpers.createUser: insert([{username, email, password_hash, role}]);
\* the table hands out the id.
createUser(username, email, role) ==
    [id \in DOMAIN profiles \cup {nextUserId} |->
        IF id = nextUserId
        THEN [username |-> username, email |-> email, role |-> role]
        ELSE profiles[id]]

\* jwt.sign({userId, username, role}, JWT_SECRET, {expiresIn: JWT_EXPIRES_IN})
jwtSign(userId, username, role) ==
    [sig |-> "good", userId |-> userId, username |-> username, role |-> role,
     iat |-> clock, exp |-> clock + JWT_EXPIRES_IN]

\* POST /api/auth/register with a well-formed body {username, email,
\* password} (the 400 answers to a malformed body change nothing and are
\* left out).  Register sends the username and the email of one identity:
\* one that registered before or the next new one (identities are numbered
\* in the order they first register).
\* last.param and last.role are the id and the role of the 201 response.
RegisterWith(username, email) ==
        LET route == "POST /api/auth/register"
            role == RegisterRole(getUserCount)
            req == Request(<<>>, NoApiKey)
        IN  /\ pc = "idle"
            /\ now < MaxTime
            /\ nextUserId <= MaxUsers
            /\ now' = clock
            /\ \/ /\ last' = Respond(req, route, 0, "", 500, "Registration failed",
                                     <<"getUserByEmailOrUsername">>,
                                     "getUserByEmailOrUsername")
                  /\ UNCHANGED <<profiles, issued, nextUserId>>
               \/ /\ getUserByEmailOrUsername(email) # 0
                  /\ last' = Respond(req, route, 0, "", 409,
                                     "User with this email or username already exists",
                                     <<"getUserByEmailOrUsername">>, "none")
                  /\ UNCHANGED <<profiles, issued, nextUserId>>
               \/ /\ getUserByEmailOrUsername(email) = 0
                  /\ last' = Respond(req, route, 0, "", 500, "Registration failed",
                                     <<"getUserByEmailOrUsername", "getUserCount">>,
                                     "getUserCount")
                  /\ UNCHANGED <<profiles, issued, nextUserId>>
               \/ /\ getUserByEmailOrUsername(email) = 0
                  /\ last' = Respond(req, route, 0, "", 500, "Registration failed",
                                     <<"getUserByEmailOrUsername", "getUserCount",
                                       "createUser">>, "createUser")
                  /\ UNCHANGED <<profiles, issued, nextUserId>>
               \/ /\ getUserByEmailOrUsername(email) = 0
                  /\ profiles' = createUser(username, email, role)
                  /\ nextUserId' = nextUserId + 1
                  /\ issued' = issued \cup {jwtSign(nextUserId, username, role)}
                  /\ last' = Respond(req, route, nextUserId, role, 201, "",
                                     <<"getUserByEmailOrUsername", "getUserCount",
                                       "createUser">>, "none")
            /\ UNCHANGED <<apiKeys, disclosed, nextKeyId, content, tags, nextContentId, nextTagId, pc>>

Register ==
    \E i \in {j \in Identities : j <= nextUserId} :
        RegisterWith(Username(i), Email(i))

\* POST /api/auth/login with a body {identifier, password}: the identifier is
\* the username or the email of an identity; `correct` tells whether
\* bcrypt.compare finds the password to be the one of the profile.
\* last.param and last.role are the id and the role of the 200 response.
Login ==
    \E i \in {j \in Identities : j < nextUserId}, correct \in BOOLEAN :
      \E identifier \in {Username(i), Email(i)} :
        LET route == "POST /api/auth/login"
            req == Request(<<>>, NoApiKey)
            id == getUserByEmailOrUsername(identifier)
        IN  /\ pc = "idle"
            /\ now < MaxTime
            /\ now' = clock
            /\ \/ /\ last' = Respond(req, route, 0, "", 500, "Login failed",
                                     <<"getUserByEmailOrUsername">>,
                                     "getUserByEmailOrUsername")
                  /\ UNCHANGED issued
               \/ /\ id = 0 \/ ~correct
                  /\ last' = Respond(req, route, 0, "", 401, "Invalid credentials",
                                     <<"getUserByEmailOrUsername">>, "none")
                  /\ UNCHANGED issued
               \/ /\ id # 0 /\ correct
                  /\ issued' = issued \cup
                        {jwtSign(id, profiles[id].username, profiles[id].role)}
                  /\ last' = Respond(req, route, id, profiles[id].role, 200, "",
                                     <<"getUserByEmailOrUsername">>, "none")
            /\ UNCHANGED <<profiles, apiKeys, disclosed, nextUserId, nextKeyId, content, tags, nextContentId, nextTagId, pc>>

\* A logout that makes the server forget the token it is sent.
LogoutRevoking ==
    \E authHeader \in AuthHeaders :
        /\ pc = "idle"
        /\ issued' = issued \ {TokenOf(authHeader)}
        /\ last' = Respond(Request(authHeader, NoApiKey), "POST /api/auth/logout",
                           0, "", 200, "", <<>>, "none")
        /\ UNCHANGED <<profiles, apiKeys, disclosed, nextUserId, nextKeyId, content, tags, nextContentId, nextTagId, now, pc>>

\* POST /api/auth/logout: res.json({message: 'Logout successful'}).  No
\* middleware runs, nothing is awaited and no header is read; the client
\* sends whatever Authorization it has.
Logout ==
    \E authHeader \in AuthHeaders :
        /\ pc = "idle"
        /\ last' = Respond(Request(authHeader, NoApiKey), "POST /api/auth/logout",
                           0, "", 200, "", <<>>, "none")
        /\ UNCHANGED <<profiles, apiKeys, issued, disclosed, nextUserId,
                       nextKeyId, content, tags, nextContentId, nextTagId, now, pc>>

\* `atla_${crypto.randomBytes(32).toString('hex')}`: a string no earlier call
\* produced.  The strings are numbered in the order they are generated; a
\* client may send any of them before it is generated, or never generated.
randomKey == nextKeyId

\* POST /api/keys with a body {name}: a fresh random key, whose SHA-256 is
\* stored.  last.param is the raw key of the 201 response.
CreateKey ==
    LET route == "POST /api/keys"
    IN  /\ pc = "authed"
        /\ nextKeyId <= MaxKeys
        /\ pc' = "idle"
        /\ \/ /\ last' = Respond(last, route, 0, "", 500, "Failed to create API key",
                                 <<"createApiKey">>, "createApiKey")
              /\ UNCHANGED <<apiKeys, disclosed, nextKeyId>>
           \/ /\ apiKeys' = createApiKey(apiKeys, last.user.id, Sha256(randomKey))
              /\ disclosed' = disclosed \cup {[key |-> randomKey, id |-> nextKeyId]}
              /\ nextKeyId' = nextKeyId + 1
              /\ last' = [Respond(last, route, randomKey, "", 201, "",
                                  <<"createApiKey">>, "none")
                            EXCEPT !.body = {[key |-> randomKey]}]
        /\ UNCHANGED <<profiles, issued, nextUserId, now, content, tags, nextContentId, nextTagId>>

\* A listing that selects every column: select('*').
getApiKeysByUserAll(userId) == {r \in apiKeys : r.user_id = userId}

\* db_helpers.getApiKeysByUser: select('id, name, last_used_at, created_at')
\* .eq('user_id', userId); of these columns the model's rows have two.
getApiKeysByUser(userId) ==
    {[id |-> r.id, last_used_at |-> r.last_used_at] :
        r \in {k \in apiKeys : k.user_id = userId}}

\* GET /api/keys: res.json(keys).
ListKeys ==
    LET route == "GET /api/keys"
    IN  /\ pc = "authed"
        /\ pc' = "idle"
        /\ \/ last' = Respond(last, route, 0, "", 500, "Failed to list API keys",
                              <<"getApiKeysByUser">>, "getApiKeysByUser")
           \/ last' = [Respond(last, route, 0, "", 200, "",
                               <<"getApiKeysByUser">>, "none")
                         EXCEPT !.body = getApiKeysByUser(last.user.id)]
        /\ UNCHANGED <<profiles, apiKeys, issued, disclosed, nextUserId, nextKeyId, content, tags, nextContentId, nextTagId, now>>

\* DELETE /api/keys/:id: deleteApiKey(id, req.user.id).
DeleteKey ==
    \E id \in KeyIds :
        LET route == "DELETE /api/keys/:id"
            result == deleteApiKey(apiKeys, id, last.user.id)
        IN  /\ pc = "authed"
            /\ pc' = "idle"
            /\ \/ /\ last' = Respond(last, route, id, "", 500, "Failed to revoke API key",
                                     <<"deleteApiKey">>, "deleteApiKey")
                  /\ UNCHANGED apiKeys
               \/ /\ result.changes = 0
                  /\ last' = Respond(last, route, id, "", 404, "API key not found",
                                     <<"deleteApiKey">>, "none")
                  /\ UNCHANGED apiKeys
               \/ /\ result.changes # 0
                  /\ apiKeys' = result.keys
                  /\ last' = Respond(last, route, id, "", 200, "",
                                     <<"deleteApiKey">>, "none")
            /\ UNCHANGED <<profiles, issued, disclosed, nextUserId, nextKeyId, content, tags, nextContentId, nextTagId, now>>

\* A validation that lets one more role through.
ValidRolesAndOwner == {"admin", "contributor", "viewer", "owner"}

\* routes/users.js line 152: the roles PATCH /:id/role accepts.
ValidRoles == {"admin", "contributor", "viewer"}

\* A count of every profile: select('id') with no filter.
adminCountUnfiltered == DOMAIN profiles

\* routes/users.js lines 158-161: select('id').eq('role', 'admin').
adminCount == {id \in DOMAIN profiles : profiles[id].role = "admin"}

\* routes/users.js lines 171-174: update({role}).eq('id', id).
updateRole(id, role) ==
    [i \in DOMAIN profiles |->
        IF i = id THEN [profiles[i] EXCEPT !.role = role] ELSE profiles[i]]

\* PATCH /api/users/:id/role with a body {role}: requireRole('admin'), then
\* the handler.
PatchRole ==
    LET route == "PATCH /api/users/:id/role"
        req == Guarded(last, route, {"admin"})
    IN  /\ pc = "authed"
        /\ pc' = "idle"
        /\ \/ /\ req.guard = "stopped"
              /\ last' = req
              /\ UNCHANGED profiles
           \/ /\ req.guard = "next"
              /\ \E id \in UserIds, role \in ValidRoles \cup {"owner"} :
                   LET self == req.user.id = id
                       counted == IF self THEN <<"profiles.select">> ELSE <<>>
                       onlyAdmin == Cardinality(adminCount) = 1 /\ role # "admin"
                   IN  \/ /\ role \notin ValidRoles
                          /\ last' = Respond(req, route, id, role, 400,
                                             "Invalid role. Must be admin, contributor, or viewer.",
                                             <<>>, "none")
                          /\ UNCHANGED profiles
                       \/ /\ role \in ValidRoles
                          /\ self
                          /\ last' = Respond(req, route, id, role, 500,
                                             "Failed to update user role",
                                             counted, "profiles.select")
                          /\ UNCHANGED profiles
                       \/ /\ role \in ValidRoles
                          /\ self /\ onlyAdmin
                          /\ last' = Respond(req, route, id, role, 400,
                                             "Cannot demote the only admin user",
                                             counted, "none")
                          /\ UNCHANGED profiles
                       \/ /\ role \in ValidRoles
                          /\ ~(self /\ onlyAdmin)
                          /\ last' = Respond(req, route, id, role, 500,
                                             "Failed to update user role",
                                             counted \o <<"profiles.update">>,
                                             "profiles.update")
                          /\ UNCHANGED profiles
                       \/ /\ role \in ValidRoles
                          /\ ~(self /\ onlyAdmin)
                          /\ profiles' = updateRole(id, role)
                          /\ last' = Respond(req, route, id, role, 200, "",
                                             counted \o <<"profiles.update">>, "none")
        /\ UNCHANGED <<apiKeys, issued, disclosed, nextUserId, nextKeyId, content, tags, nextContentId, nextTagId, now>>

\* routes/users.js lines 211-214: delete().eq('id', id) on profiles.
deleteProfile(id) == [i \in DOMAIN profiles \ {id} |-> profiles[i]]

\* api_keys.user_id references profiles (getApiKeyByHash embeds
\* profiles(...) through that foreign key): the rows of a deleted profile go
\* with it.
cascadeApiKeys(keys, id) == {r \in keys : r.user_id # id}

\* DELETE /api/users/:id: requireRole('admin'), then the handler.
DeleteUser ==
    LET route == "DELETE /api/users/:id"
        req == Guarded(last, route, {"admin"})
    IN  /\ pc = "authed"
        /\ pc' = "idle"
        /\ \/ /\ req.guard = "stopped"
              /\ last' = req
              /\ UNCHANGED <<profiles, apiKeys>>
           \/ /\ req.guard = "next"
              /\ \E id \in UserIds :
                   \/ /\ req.user.id = id
                      /\ last' = Respond(req, route, id, "", 400,
                                         "Cannot delete your own account", <<>>, "none")
                      /\ UNCHANGED <<profiles, apiKeys>>
                   \/ /\ req.user.id # id
                      /\ last' = Respond(req, route, id, "", 500, "Failed to delete user",
                                         <<"profiles.select">>, "profiles.select")
                      /\ UNCHANGED <<profiles, apiKeys>>
                   \/ /\ req.user.id # id
                      /\ id \notin DOMAIN profiles
                      /\ last' = Respond(req, route, id, "", 404, "User not found",
                                         <<"profiles.select">>, "none")
                      /\ UNCHANGED <<profiles, apiKeys>>
                   \/ /\ req.user.id # id
                      /\ id \in DOMAIN profiles
                      /\ last' = Respond(req, route, id, "", 500, "Failed to delete user",
                                         <<"profiles.select", "profiles.delete">>,
                                         "profiles.delete")
                      /\ UNCHANGED <<profiles, apiKeys>>
                   \/ /\ req.user.id # id
                      /\ id \in DOMAIN profiles
                      /\ profiles' = deleteProfile(id)
                      /\ apiKeys' = cascadeApiKeys(apiKeys, id)
                      /\ last' = Respond(req, route, id, "", 200, "",
                                         <<"profiles.select", "profiles.delete">>, "none")
        /\ UNCHANGED <<issued, disclosed, nextUserId, nextKeyId, content, tags, nextContentId, nextTagId, now>>

Next ==
    \/ Register
    \/ Authenticate
    \/ GetMe
    \/ ListUsers
    \/ CreateKey
    \/ DeleteKey
    \/ PatchRole
    \/ DeleteUser

Spec == Init /\ [][Next]_vars

\* The three middlewares of middleware/auth.js side by side: the strict gate,
\* the role guard and the optional gate, over a store in which users
\* register, create and list keys, and are deleted.
NextGate ==
    \/ Register
    \/ Authenticate
    \/ OptionalAuth
    \/ GetMe
    \/ ListUsers
    \/ CreateKey
    \/ ListKeys
    \/ DeleteUser

SpecGate == Init /\ [][NextGate]_vars

\* The session routes on their own: registration, login and logout, and the
\* gate; a user can be deleted while tokens of theirs are in use.
NextSession ==
    \/ Register
    \/ Login
    \/ Logout
    \/ Authenticate
    \/ GetMe
    \/ DeleteUser

SpecSession == Init /\ [][NextSession]_vars

\* ================================================================== claims
\* The request of `last` went through authenticateToken.
UngatedRoutes ==
    {"POST /api/auth/register", "POST /api/auth/login", "POST /api/auth/logout",
     "optionalAuth"}
GateRan == last.time > 0 /\ last.route \notin UngatedRoutes

\* Only authenticateToken has run on the request of `last`: the tables are
\* as it left them.
GateOnly == GateRan /\ last.route = ""

\* The request carries a bearer token: a second word in Authorization.
CarriesBearer(req) == Len(req.authHeader) >= 2
Bearer(req) == req.authHeader[2]

\* The operations of the API-key path of authenticateToken.
KeyPathOps == {"getApiKeyByHash", "updateApiKeyLastUsed"}

\* The api_keys rows whose raw key, as POST /api/keys returned it, is `key`.
RowsOfKey(key) ==
    {r \in apiKeys : \E d \in disclosed : d.key = key /\ d.id = r.id}

\* The credential of the request is valid: a token this server signed, not
\* expired at the time of the request, of a user that exists; or, with no
\* bearer token, the raw key of a stored api_keys row.
BearerValid(req) ==
    /\ CarriesBearer(req)
    /\ Bearer(req).sig = "good"
    /\ req.time < Bearer(req).exp
    /\ Bearer(req).userId \in DOMAIN profiles
KeyValid(req) ==
    /\ ~CarriesBearer(req)
    /\ req.apiKey # NoApiKey
    /\ RowsOfKey(req.apiKey) # {}
CredentialValid(req) == BearerValid(req) \/ KeyValid(req)

\* C1: token precedence.  A request that carries a bearer token is decided
\* by the token alone: authenticateToken awaits neither getApiKeyByHash nor
\* updateApiKeyLastUsed, leaves the api_keys table as it was, and when it
\* calls next() the principal is the token's user, whatever X-API-Key says.
C1_TokenPrecedence ==
    [][ (pc = "idle" /\ CarriesBearer(last'))
          => /\ apiKeys' = apiKeys
             /\ \A i \in DOMAIN last'.ops : last'.ops[i] \notin KeyPathOps
             /\ last'.authType # "apikey"
             /\ last'.next => /\ last'.authType = "jwt"
                              /\ last'.user.id = Bearer(last').userId ]_vars

\* C1 witness: a valid token of user T together with the API key of another
\* user K; the principal is T.
C1_Witness ==
    /\ GateOnly /\ last.next
    /\ CarriesBearer(last)
    /\ last.user.id = Bearer(last).userId
    /\ \E r \in RowsOfKey(last.apiKey) : r.user_id # last.user.id

\* C2: the status contract of the gate.  A request with no credential or an
\* invalid one (and no store failure) is answered 401 by authenticateToken;
\* 403 is answered only by the role guard, to a valid credential whose role
\* is not allowed.
C2_StatusContract ==
    /\ (GateOnly /\ ~CredentialValid(last) /\ last.failed = "none")
          => (~last.next /\ last.status = 401)
    /\ (GateRan /\ last.status = 403)
          => /\ CredentialValid(last)
             /\ last.guard = "stopped"
             /\ last.user.role \notin last.allowed

\* C3: a store failure during the credential lookup (getUserById on the
\* token path, getApiKeyByHash on the key path) is answered 500, and next()
\* is not called.
C3_LookupFailureIs500 ==
    (GateRan /\ last.failed \in {"getUserById", "getApiKeyByHash"})
        => (last.status = 500 /\ ~last.next)

\* C4: on the API-key path, once the key's row is found, the request is
\* authenticated as the row's owner whether or not the lastUsedAt update
\* succeeds.
C4_TouchFailureIgnored ==
    (GateOnly /\ KeyValid(last) /\ last.failed # "getApiKeyByHash")
        => /\ last.next
           /\ last.status = 0
           /\ \E r \in RowsOfKey(last.apiKey) : last.user.id = r.user_id

\* ------------------------------------------------- the role guard on its own
\* requireRole as a middleware of any chain: the request it is handed may
\* have a principal (attached by authenticateToken, by token or by key) or
\* none, and the guard may be built for any set of roles.
Principals ==
    {[id |-> id, username |-> Username(id), email |-> Email(id), role |-> role] :
        id \in UserIds, role \in Roles}

InitGuard ==
    /\ profiles = <<>>
    /\ apiKeys = {}
    /\ issued = {}
    /\ disclosed = {}
    /\ nextUserId = 1
    /\ nextKeyId = 1
    /\ content = {}
    /\ tags = {}
    /\ nextContentId = 1
    /\ nextTagId = 1
    /\ now = 0
    /\ pc = "authed"
    /\ \/ last = Request(<<>>, NoApiKey)
       \/ \E user \in Principals, authType \in {"jwt", "apikey"} :
            last = [Request(<<>>, NoApiKey) EXCEPT
                        !.user = user, !.authType = authType, !.next = TRUE]

\* requireRole(...allowedRoles)(req, res, next)
GuardCall ==
    \E allowedRoles \in SUBSET Roles :
        /\ pc = "authed"
        /\ pc' = "idle"
        /\ last' = Guarded(last, "requireRole", allowedRoles)
        /\ UNCHANGED <<profiles, apiKeys, issued, disclosed, nextUserId, nextKeyId, content, tags, nextContentId, nextTagId, now>>

NextGuard == GuardCall

SpecGuard == InitGuard /\ [][NextGuard]_vars

\* C5: requireRole(allowedRoles) calls next() exactly when a principal is
\* attached and its role is in allowedRoles; without a principal it answers
\* 401 'Authentication required', with a principal of another role 403
\* 'Insufficient permissions'; it awaits no store operation, leaves the
\* tables alone and leaves the request (its headers, req.user, req.authType)
\* as it was.
C5_RequireRole ==
    [][ (pc = "authed" /\ last'.route = "requireRole")
          => /\ (last'.guard = "next")
                    <=> (last.user # NoUser /\ last.user.role \in last'.allowed)
             /\ last'.guard \in {"next", "stopped"}
             /\ last'.guard = "next"
                    => (last'.status = last.status /\ last'.error = last.error)
             /\ (last'.guard = "stopped" /\ last.user = NoUser)
                    => (last'.status = 401 /\ last'.error = "Authentication required")
             /\ (last'.guard = "stopped" /\ last.user # NoUser)
                    => (last'.status = 403 /\ last'.error = "Insufficient permissions")
             /\ last'.ops = last.ops
             /\ UNCHANGED <<profiles, apiKeys>>
             /\ last'.user = last.user
             /\ last'.authType = last.authType
             /\ last'.authHeader = last.authHeader
             /\ last'.apiKey = last.apiKey ]_vars

\* C5 witness: a viewer against {admin, contributor} is denied with 403.
C5_Witness ==
    /\ last.route = "requireRole"
    /\ last.user.role = "viewer"
    /\ last.allowed = {"admin", "contributor"}
    /\ last.guard = "stopped"
    /\ last.status = 403

\* The api_keys rows with id `id`, and those of them that `userId` owns.
RowsOfId(id) == {r \in apiKeys : r.id = id}
OwnRowsOfId(id, userId) == {r \in RowsOfId(id) : r.user_id = userId}

\* C6: DELETE /api/keys/:id removes only records whose id is :id and whose
\* user_id is the caller's id.  When :id names a record of another user the
\* table is unchanged and the answer is never 403: it is 404 'API key not
\* found' (when the store answers the delete), the answer to an id that
\* names no record.
C6_DeleteOwnKeyOnly ==
    [][ (pc = "authed" /\ last'.route = "DELETE /api/keys/:id")
          => LET id == last'.param
                 caller == last.user.id
             IN  /\ apiKeys' \subseteq apiKeys
                 /\ (apiKeys \ apiKeys') \subseteq OwnRowsOfId(id, caller)
                 /\ (last'.status = 200) <=> (apiKeys' # apiKeys)
                 /\ (RowsOfId(id) # {} /\ OwnRowsOfId(id, caller) = {})
                        => /\ apiKeys' = apiKeys
                           /\ last'.status # 403
                           /\ last'.failed = "none"
                                 => /\ last'.status = 404
                                    /\ last'.error = "API key not found"
                 /\ (RowsOfId(id) = {} /\ last'.failed = "none")
                        => /\ last'.status = 404
                           /\ last'.error = "API key not found" ]_vars

\* C6 witness: a caller asked to delete the key of another user and was
\* answered 404; the key is still there.
C6_Witness ==
    /\ last.route = "DELETE /api/keys/:id"
    /\ last.status = 404
    /\ \E r \in RowsOfId(last.param) : r.user_id # last.user.id

\* Every profile has the role its registration gave it.
AsRegistered ==
    \A id \in DOMAIN profiles :
        profiles[id].role = (IF id = 1 THEN "admin" ELSE "viewer")

\* C7: a successful POST /api/auth/register gives role admin to the first
\* user ever registered and role viewer to every later one (in the profile
\* and in the response); on a route guarded by requireRole('admin') a viewer
\* is answered 403, and the first user, while the roles are as registered,
\* passes the guard.
C7_FirstUserAdmin ==
    [][ /\ (pc = "idle" /\ last'.route = "POST /api/auth/register"
                        /\ last'.status = 201)
              => /\ last'.param = nextUserId
                 /\ last'.role = (IF nextUserId = 1 THEN "admin" ELSE "viewer")
                 /\ DOMAIN profiles' = DOMAIN profiles \cup {nextUserId}
                 /\ profiles'[nextUserId].role = last'.role
                 /\ \A id \in DOMAIN profiles : profiles'[id] = profiles[id]
        /\ (pc = "authed" /\ last'.allowed = {"admin"})
              => /\ last.user.role = "viewer"
                    => (last'.guard = "stopped" /\ last'.status = 403)
                 /\ (last.user.id = 1 /\ AsRegistered)
                    => last'.guard = "next" ]_vars

\* C7 witness: two users are registered; the second, a viewer, was answered
\* 403 by GET /api/users while the first is the admin.
C7_Witness ==
    /\ last.route = "GET /api/users"
    /\ last.status = 403
    /\ last.user.id = 2 /\ last.user.role = "viewer"
    /\ DOMAIN profiles = {1, 2}
    /\ AsRegistered

\* The answer of the API-key path to the key of `req`: the raw key of a
\* stored record authenticates as the record's owner, any other string is
\* answered 401 'Invalid API key'.
KeyDecides(req) ==
    IF RowsOfKey(req.apiKey) # {}
    THEN /\ req.next
         /\ req.status = 0
         /\ req.authType = "apikey"
         /\ \A r \in RowsOfKey(req.apiKey) : req.user.id = r.user_id
    ELSE /\ ~req.next
         /\ req.user = NoUser
         /\ req.status = 401
         /\ req.error = "Invalid API key"

C9_KeyPrincipalAndLastUsed ==
    (GateOnly /\ last.next /\ last.authType = "apikey")
        => /\ RowsOfKey(last.apiKey) # {}
           /\ \A r \in RowsOfKey(last.apiKey) :
                /\ r.user_id \in DOMAIN profiles
                /\ last.user.id = r.user_id
                /\ last.user.username = profiles[r.user_id].username
                /\ last.user.email = profiles[r.user_id].email
                /\ last.user.role = profiles[r.user_id].role
                /\ r.last_used_at = last.time
                /\ r.last_used_at # last.prior

\* C9 witness: the first use of a key (last_used_at was null) by the
\* second user, registered as viewer and made contributor since.
C9_Witness ==
    /\ GateOnly /\ last.next
    /\ last.authType = "apikey"
    /\ last.prior = 0
    /\ last.user.id = 2
    /\ last.user.role = "contributor"
    /\ \E r \in RowsOfKey(last.apiKey) : r.last_used_at = last.time

\* C10: the role that authorizes a request is the role of the profile as
\* stored when the request is handled, not the role in the token: the
\* principal authenticateToken attaches carries the stored role, and a role
\* guard lets the request through exactly when the stored role is allowed.
C10_StoredRoleDecides ==
    [][ (pc = "authed")
          => /\ last.user.id \in DOMAIN profiles
             /\ last.user.role = profiles[last.user.id].role
             /\ last'.guard # "none"
                   => ((last'.guard = "next")
                          <=> (profiles[last.user.id].role \in last'.allowed)) ]_vars

\* C10 witness: a user registered as viewer and made admin since passes
\* requireRole('admin') with the token of the registration, which says viewer.
C10_Witness ==
    /\ last.guard = "next"
    /\ last.allowed = {"admin"}
    /\ last.authType = "jwt"
    /\ Bearer(last).role = "viewer"
    /\ last.user.role = "admin"

\* C11: optionalAuth never rejects and never reads X-API-Key.  On every run
\* it calls next() and sends no response; it awaits no operation of the key
\* path and writes nothing; the principal it attaches is the token's user,
\* as stored, exactly when the bearer token verifies, its user exists and
\* the lookup is answered; in every other case (no token, a token that does
\* not verify or has expired, a user that is gone, a failed lookup, an API
\* key alone) the request goes on with no principal.
C11_OptionalAuth ==
    [][ (pc = "idle" /\ last'.route = "optionalAuth")
          => /\ last'.next
             /\ last'.status = 0 /\ last'.error = ""
             /\ UNCHANGED <<profiles, apiKeys>>
             /\ \A i \in DOMAIN last'.ops : last'.ops[i] \notin KeyPathOps
             /\ last'.authType # "apikey"
             /\ (last'.user # NoUser)
                    <=> (BearerValid(last') /\ last'.failed = "none")
             /\ last'.user # NoUser
                    => last'.user = getUserById(Bearer(last').userId) ]_vars

\* C11 witness: a request that carries only the raw key of a stored record
\* went through optionalAuth without a principal.
C11_Witness ==
    /\ last.route = "optionalAuth"
    /\ ~CarriesBearer(last)
    /\ RowsOfKey(last.apiKey) # {}
    /\ last.next
    /\ last.user = NoUser

\* ------------------------------------------- authenticateToken, re-entered
\* authenticateToken later in a chain, on a request to which an earlier
\* middleware (optionalAuth: no authType; authenticateToken: 'jwt' or
\* 'apikey') has attached a principal.  The store holds MaxUsers profiles
\* with a token each and one API key of the first user; the request carries
\* any credentials.
InitReentry ==
    /\ now = 0
    /\ profiles = [id \in UserIds |->
                     [username |-> Username(id), email |-> Email(id),
                      role |-> RegisterRole(id - 1)]]
    /\ apiKeys = {[id |-> 1, user_id |-> 1, key_hash |-> Sha256(1),
                   last_used_at |-> 0]}
    /\ issued = {jwtSign(id, Username(id), RegisterRole(id - 1)) : id \in UserIds}
    /\ disclosed = {[key |-> 1, id |-> 1]}
    /\ nextUserId = MaxUsers + 1
    /\ nextKeyId = 2
    /\ content = {}
    /\ tags = {}
    /\ nextContentId = 1
    /\ nextTagId = 1
    /\ pc = "chained"
    /\ \E authHeader \in AuthHeaders, apiKey \in ApiKeyHeaders,
          user \in Principals, authType \in {"", "jwt", "apikey"} :
            last = [Request(authHeader, apiKey) EXCEPT
                        !.user = user, !.authType = authType, !.next = TRUE]

\* authenticateToken(req, res, next) on that request.
Reenter ==
    \E g \in {authenticateToken(last, fault) : fault \in GateFaults} :
        /\ pc = "chained"
        /\ pc' = "authed"
        /\ apiKeys' = g.keys
        /\ last' = [last EXCEPT !.user = g.user, !.authType = g.authType,
                                !.next = g.next, !.prior = g.prior,
                                !.status = g.status, !.error = g.error,
                                !.ops = last.ops \o g.ops, !.failed = g.failed]
        /\ UNCHANGED <<profiles, issued, disclosed, nextUserId, nextKeyId, content, tags, nextContentId, nextTagId, now>>

NextReentry == Reenter

SpecReentry == InitReentry /\ [][NextReentry]_vars

\* C12: idempotent re-entry.  authenticateToken on a request that already
\* has a principal calls next(), sends nothing, awaits no store operation,
\* writes nothing, and leaves req.user and req.authType as they were,
\* whatever Authorization and X-API-Key the request carries.
C12_Reentry ==
    [][ (pc = "chained")
          => /\ last'.next
             /\ last'.status = 0 /\ last'.error = ""
             /\ last'.ops = last.ops
             /\ last'.failed = "none"
             /\ UNCHANGED <<profiles, apiKeys>>
             /\ last'.user = last.user
             /\ last'.authType = last.authType ]_vars

\* C12 witness: the request of the second user, attached without authType,
\* carried the first user's stored API key and no token; the principal is
\* still the second user and the key's record is untouched.
C12_Witness ==
    /\ pc = "authed"
    /\ last.user.id = 2
    /\ last.authType = ""
    /\ ~CarriesBearer(last)
    /\ \E r \in RowsOfKey(last.apiKey) : r.user_id = 1 /\ r.last_used_at = 0

\* The columns of an api_keys row.
KeyColumns == {"id", "user_id", "key_hash", "last_used_at"}

\* C13: the raw key is never persisted and is disclosed once.  After every
\* step each api_keys row has the columns of the table and holds, as
\* key_hash, the SHA-256 of the raw key returned for it, not the key; a
\* response body holds a raw key only when the step is the POST /api/keys
\* that generated that key and stored its row; no response body holds a
\* key_hash, and GET /api/keys returns neither.
C13_KeyDisclosedOnce ==
    [][ /\ \A r \in apiKeys' :
              /\ DOMAIN r = KeyColumns
              /\ \E d \in disclosed' :
                    d.id = r.id /\ r.key_hash = Sha256(d.key) /\ r.key_hash # d.key
        /\ \A b \in last'.body :
              /\ "key_hash" \notin DOMAIN b
              /\ "key" \in DOMAIN b
                    => /\ last'.route = "POST /api/keys"
                       /\ last'.status = 201
                       /\ pc = "authed"
                       /\ b.key \notin {d.key : d \in disclosed}
                       /\ [key |-> b.key, id |-> nextKeyId] \in disclosed'
                       /\ \E r \in apiKeys' \ apiKeys :
                             r.id = nextKeyId /\ r.key_hash = Sha256(b.key)
        /\ disclosed' # disclosed
              => \E b \in last'.body : disclosed' = disclosed \cup
                                          {[key |-> b.key, id |-> nextKeyId]}
        /\ last'.route = "GET /api/keys"
              => \A b \in last'.body : DOMAIN b \cap {"key", "key_hash"} = {} ]_vars

\* C13 witness: GET /api/keys listed a stored key of the caller.
C13_Witness ==
    /\ last.route = "GET /api/keys"
    /\ last.status = 200
    /\ \E b \in last.body : \E r \in apiKeys :
          r.id = b.id /\ r.user_id = last.user.id /\ r.key_hash # 0

\* C14: stateless session.  POST /api/auth/logout changes nothing but the
\* response: the tables, the tokens in circulation and the clock are as
\* before, and authenticateToken answers the credential that was logged
\* out as it would have before; and whenever authenticateToken is given a bearer
\* token (and the lookup is answered) it accepts it exactly when the
\* signature verifies, the token has not expired and its user exists,
\* whatever logouts went before.
C14_StatelessSession ==
    [][ /\ (pc = "idle" /\ last'.route = "POST /api/auth/logout")
              => /\ UNCHANGED <<profiles, apiKeys, issued, disclosed,
                               nextUserId, nextKeyId, content, tags, nextContentId, nextTagId, now, pc>>
                 /\ last'.status = 200
                 /\ \A authHeader \in AuthHeaders :
                       authHeader = last'.authHeader
                           => GateOutcomes(authHeader, NoApiKey)'
                                  = GateOutcomes(authHeader, NoApiKey)
        /\ (pc = "idle" /\ last'.route = "" /\ CarriesBearer(last')
                        /\ last'.failed = "none")
              => /\ last'.next <=> BearerValid(last')
                 /\ last'.next => last'.user.id = Bearer(last').userId ]_vars

\* C14 witness: a logout that was sent a token which is still valid: it
\* verifies at the next clock reading and its user exists.
C14_Witness ==
    /\ last.route = "POST /api/auth/logout"
    /\ CarriesBearer(last)
    /\ Bearer(last) \in issued
    /\ jwtVerify(Bearer(last)) = "ok"
    /\ TokenUser(Bearer(last)) # NoUser
    /\ \E g \in GateOutcomes(last.authHeader, NoApiKey) :
          g.next /\ g.user.id = Bearer(last).userId

\* C15: one terminal outcome.  When authenticateToken has run, either it
\* called next() with a principal attached and sent no response, or it
\* sent an error response, did not call next() and left the request
\* without a principal.  (next() and the response are each reached by a
\* `return`, so neither happens twice.)
C15_OneTerminalOutcome ==
    GateOnly =>
        \/ last.next /\ last.status = 0 /\ last.user # NoUser
        \/ ~last.next /\ last.status # 0 /\ last.user = NoUser

\* ------------------------------------------------ the gate on a filled store
\* The gate middlewares on a store that holds MaxUsers profiles, each with
\* a token and one API key (the key of user k is the string k), as
\* registration and POST /api/keys leave them.
FilledProfiles ==
    [id \in UserIds |->
        [username |-> Username(id), email |-> Email(id),
         role |-> RegisterRole(id - 1)]]
FilledKeys ==
    {[id |-> k, user_id |-> k, key_hash |-> Sha256(k), last_used_at |-> 0] :
        k \in UserIds}

InitFrame ==
    /\ now = 0
    /\ profiles = FilledProfiles
    /\ apiKeys = FilledKeys
    /\ issued = {jwtSign(id, Username(id), RegisterRole(id - 1)) : id \in UserIds}
    /\ disclosed = {[key |-> k, id |-> k] : k \in UserIds}
    /\ nextUserId = MaxUsers + 1
    /\ nextKeyId = MaxUsers + 1
    /\ content = {}
    /\ tags = {}
    /\ nextContentId = 1
    /\ nextTagId = 1
    /\ pc = "idle"
    /\ last = NoRequest

\* authenticateToken or optionalAuth on a fresh request, then (after
\* authenticateToken) GET /api/auth/me or requireRole('admin') of GET /api/users.
NextFrame ==
    \/ Authenticate
    \/ OptionalAuth
    \/ GetMe
    \/ ListUsers

SpecFrame == InitFrame /\ [][NextFrame]_vars

\* C16: the gate's frame.  A run of authenticateToken or of optionalAuth
\* leaves profiles as they were and api_keys with the same rows, each
\* equal to what it was except, at most, last_used_at of the row whose
\* key authenticated the request; a request that is rejected, or carries a
\* bearer token, or goes through optionalAuth, leaves api_keys as it was;
\* and requireRole, stopping or passing the request of GET /api/users,
\* writes nothing.
C16_GateFrame ==
    [][ /\ (pc = "idle")
              => /\ profiles' = profiles
                 /\ Cardinality(apiKeys') = Cardinality(apiKeys)
                 /\ \A r \in apiKeys : \E w \in apiKeys' :
                       /\ [w EXCEPT !.last_used_at = r.last_used_at] = r
                       /\ (w # r) => /\ last'.next
                                     /\ r.key_hash = Sha256(last'.apiKey)
                                     /\ last'.user.id = r.user_id
                                     /\ w.last_used_at = last'.time
                 /\ (~last'.next \/ CarriesBearer(last')
                                 \/ last'.route = "optionalAuth")
                       => apiKeys' = apiKeys
        /\ (pc = "authed" /\ last'.route = "GET /api/users")
              => UNCHANGED <<profiles, apiKeys>> ]_vars

\* C16 witness: a request authenticated by the first user's key stamped
\* that key's row, and the second user's row, stamped by an earlier
\* request, kept its older stamp.
C16_Witness ==
    /\ GateOnly /\ last.next /\ last.authType = "apikey"
    /\ last.user.id = 1
    /\ \E r \in apiKeys : r.user_id = 1 /\ r.last_used_at = last.time
    /\ \E r \in apiKeys :
          r.user_id = 2 /\ r.last_used_at > 0 /\ r.last_used_at < last.time

\* ------------------------------------------- two requests racing on one key
\* Two requests that carry the same X-API-Key and no Authorization, handled
\* by authenticateToken at once.  Node runs a handler without interruption
\* up to its next await, so each request takes four steps: the select of
\* getApiKeyByHash in the database; the continuation that assigns req.user,
\* reads new Date() and sends the update; the update in the database; the
\* continuation that calls next().  The steps of the two requests
\* interleave freely and the wall clock advances between them at will.
\* In this specification pc and last hold one value per request, and last
\* keeps beside the request the keyRecord it read and the Date it sent.
Procs == {"A", "B"}

InitRace ==
    /\ now = 0
    /\ profiles = FilledProfiles
    /\ apiKeys = FilledKeys
    /\ issued = {}
    /\ disclosed = {[key |-> k, id |-> k] : k \in UserIds}
    /\ nextUserId = MaxUsers + 1
    /\ nextKeyId = MaxUsers + 1
    /\ content = {}
    /\ tags = {}
    /\ nextContentId = 1
    /\ nextTagId = 1
    /\ pc = [p \in Procs |-> "start"]
    /\ \E apiKey \in RawKeys :
          last = [p \in Procs |->
                    [req |-> Request(<<>>, apiKey), keyRecord |-> NoKeyRecord,
                     lastUsedAt |-> 0]]

\* The wall clock.
Tick ==
    /\ now < MaxTime
    /\ now' = clock
    /\ UNCHANGED <<profiles, apiKeys, issued, disclosed, nextUserId, nextKeyId, content, tags, nextContentId, nextTagId,
                   pc, last>>

\* No token, a truthy apiKey: the hash is sent to getApiKeyByHash and the
\* database runs the select.
RaceSelect(p) ==
    /\ pc[p] = "start"
    /\ ~Attached(last[p].req)
    /\ ~Truthy(TokenOf(last[p].req.authHeader))
    /\ TruthyKey(last[p].req.apiKey)
    /\ last' = [last EXCEPT
                  ![p].keyRecord = getApiKeyByHash(Sha256(last[p].req.apiKey)),
                  ![p].req.ops = <<"getApiKeyByHash">>]
    /\ pc' = [pc EXCEPT ![p] = "selected"]
    /\ UNCHANGED <<profiles, apiKeys, issued, disclosed, nextUserId, nextKeyId, content, tags, nextContentId, nextTagId, now>>

\* The lookup is answered: 401 without a record; else req.user and
\* req.authType are assigned and updateApiKeyLastUsed sends new Date().
RaceStamp(p) ==
    LET keyRecord == last[p].keyRecord IN
    /\ pc[p] = "selected"
    /\ IF keyRecord = NoKeyRecord
       THEN /\ last' = [last EXCEPT ![p].req.status = 401,
                                    ![p].req.error = "Invalid API key"]
            /\ pc' = [pc EXCEPT ![p] = "done"]
       ELSE /\ last' = [last EXCEPT
                          ![p].req.user = [id |-> keyRecord.user_id,
                                           username |-> keyRecord.username,
                                           email |-> keyRecord.email,
                                           role |-> keyRecord.role],
                          ![p].req.authType = "apikey",
                          ![p].req.prior = keyRecord.last_used_at,
                          ![p].req.ops = <<"getApiKeyByHash", "updateApiKeyLastUsed">>,
                          ![p].lastUsedAt = clock]
            /\ pc' = [pc EXCEPT ![p] = "sent"]
    /\ UNCHANGED <<profiles, apiKeys, issued, disclosed, nextUserId, nextKeyId, content, tags, nextContentId, nextTagId, now>>

\* The database applies the update.
RaceUpdate(p) ==
    /\ pc[p] = "sent"
    /\ apiKeys' = apiKeysUpdate(apiKeys, last[p].keyRecord.id, last[p].lastUsedAt)
    /\ pc' = [pc EXCEPT ![p] = "updated"]
    /\ UNCHANGED <<profiles, issued, disclosed, nextUserId, nextKeyId, content, tags, nextContentId, nextTagId, now, last>>

\* The update is answered: return next().
RaceNext(p) ==
    /\ pc[p] = "updated"
    /\ last' = [last EXCEPT ![p].req.next = TRUE]
    /\ pc' = [pc EXCEPT ![p] = "done"]
    /\ UNCHANGED <<profiles, apiKeys, issued, disclosed, nextUserId, nextKeyId, content, tags, nextContentId, nextTagId, now>>

NextRace ==
    \/ Tick
    \/ \E p \in Procs : RaceSelect(p)
    \/ \E p \in Procs : RaceStamp(p)
    \/ \E p \in Procs : RaceUpdate(p)
    \/ \E p \in Procs : RaceNext(p)

SpecRace == InitRace /\ [][NextRace]_vars

\* The row of api_keys that the racing requests' key selects.
RacedRows == {r \in FilledKeys : r.key_hash = Sha256(last["A"].req.apiKey)}

\* C17: two requests racing on one key.  When both have ended, both called
\* next() with no response sent and the same principal, the key's owner;
\* the key's row holds the Date one of the two sent; and nothing else in
\* profiles or api_keys differs from what it was before the two requests,
\* which is all a sequential execution of the two changes.
C17_RaceLastWriteWins ==
    (\A p \in Procs : pc[p] = "done") =>
        /\ \A p \in Procs :
              /\ last[p].req.next /\ last[p].req.status = 0
              /\ last[p].req.authType = "apikey"
              /\ \E r \in RacedRows : last[p].req.user.id = r.user_id
              /\ last[p].req.user = last["A"].req.user
        /\ profiles = FilledProfiles
        /\ \E p \in Procs :
              apiKeys = {IF r \in RacedRows
                         THEN [r EXCEPT !.last_used_at = last[p].lastUsedAt]
                         ELSE r : r \in FilledKeys}

\* C17 witness: both requests ended after their steps interleaved so that
\* the request that read the clock later wrote first: the row holds the
\* earlier of the two Dates.
C17_Witness ==
    /\ \A p \in Procs : pc[p] = "done" /\ last[p].req.next
    /\ last["A"].lastUsedAt < last["B"].lastUsedAt
    /\ \E r \in apiKeys : /\ r.key_hash = Sha256(last["A"].req.apiKey)
                         /\ r.last_used_at = last["A"].lastUsedAt

\* C18: token lifetime.  A 201 of register and a 200 of login issue a
\* token for the user of the response, stamped with the time of the
\* request.  Whenever authenticateToken is handed an issued token and its
\* lookup is answered: at a time before iat + JWT_EXPIRES_IN it calls
\* next() with the token's user as principal if that user exists; at a
\* time after iat + JWT_EXPIRES_IN jwt.verify throws TokenExpiredError, no
\* store operation is awaited, next() is not called and the answer is
\* 'Invalid or expired token'.
C18_TokenLifetime ==
    /\ (/\ last.route \in {"POST /api/auth/register", "POST /api/auth/login"}
        /\ last.status \in {200, 201})
          => \E t \in issued : /\ t.userId = last.param
                               /\ t.iat = last.time
                               /\ t.exp = t.iat + JWT_EXPIRES_IN
    /\ (GateOnly /\ CarriesBearer(last) /\ Bearer(last) \in issued
                 /\ last.failed = "none")
          => LET t == Bearer(last) IN
             /\ (last.time < t.iat + JWT_EXPIRES_IN /\ t.userId \in DOMAIN profiles)
                   => /\ last.next /\ last.status = 0
                      /\ last.user.id = t.userId
             /\ (last.time > t.iat + JWT_EXPIRES_IN)
                   => /\ ~last.next
                      /\ last.user = NoUser
                      /\ last.ops = <<>>
                      /\ last.error = "Invalid or expired token"

\* C18 witness: a token is refused after its lifetime although its user
\* still exists.
C18_Witness ==
    /\ GateOnly /\ CarriesBearer(last) /\ Bearer(last) \in issued
    /\ last.time > Bearer(last).iat + JWT_EXPIRES_IN
    /\ Bearer(last).userId \in DOMAIN profiles
    /\ ~last.next

\* C19: the principal's authType.  When authenticateToken or optionalAuth
\* has called next() with a principal attached, req.authType is "token" if
\* the principal came from a bearer token and "apikey" if it came from an
\* API key.
C19_AuthTypeNamesPath ==
    ((GateOnly \/ last.route = "optionalAuth") /\ last.next /\ last.user # NoUser)
        => last.authType = (IF CarriesBearer(last) THEN "token" ELSE "apikey")

\* ------------------------------------------------ registration, any body
\* POST /api/auth/register with any username and any email of the
\* identities, together or crossed, and POST /api/auth/login.  Nothing in
\* the repository declares the profiles table, so an insert of a username
\* that is already there may be taken (the 201) or refused (the 500 of a
\* failing createUser).
RegisterAny ==
    \E i \in Identities, j \in Identities :
        RegisterWith(Username(i), Email(j))

NextRegister ==
    \/ RegisterAny
    \/ Login

SpecRegister == Init /\ [][NextRegister]_vars

\* C20: a registration whose store calls are answered, sent with the email
\* or the username of an existing profile, is answered 409 and creates no
\* profile.
C20_RegisterConflict ==
    [][ \A i \in Identities, j \in Identities :
          (/\ RegisterWith(Username(i), Email(j))
           /\ last'.failed = "none"
           /\ \E id \in DOMAIN profiles :
                 \/ profiles[id].email = Email(j)
                 \/ profiles[id].username = Username(i))
             => /\ last'.status = 409
                /\ profiles' = profiles ]_vars

\* C21: the role enumeration.  After every step every profile's role is
\* admin, contributor or viewer; a 201 of register gives the new profile
\* the role admin or viewer; and PATCH /api/users/:id/role that reaches its
\* handler with any other role in the body is answered 400 and leaves
\* profiles as they were.
C21_RoleEnumeration ==
    [][ /\ \A id \in DOMAIN profiles' : profiles'[id].role \in Roles
        /\ (last'.route = "POST /api/auth/register" /\ last'.status = 201)
              => /\ last'.role \in {"admin", "viewer"}
                 /\ last'.param \notin DOMAIN profiles
                 /\ profiles'[last'.param].role = last'.role
        /\ (/\ pc = "authed"
            /\ last'.route = "PATCH /api/users/:id/role"
            /\ last'.guard = "next"
            /\ last'.role \notin Roles)
              => /\ last'.status = 400
                 /\ profiles' = profiles ]_vars

\* C21 witness: an admin asked for a role outside the enumeration for an
\* existing viewer, and was answered 400.
C21_Witness ==
    /\ last.route = "PATCH /api/users/:id/role"
    /\ last.guard = "next"
    /\ last.role \notin Roles
    /\ last.status = 400
    /\ last.param \in DOMAIN profiles
    /\ profiles[last.param].role = "viewer"

\* C22: the only admin cannot demote itself.  PATCH /api/users/:id/role
\* whose caller targets its own id while it is the only profile with role
\* admin, asking for contributor or viewer, is answered 400 'Cannot demote
\* the only admin user' (the count being answered) and no role changes.
C22_OnlyAdminKeepsRole ==
    [][ (/\ pc = "authed"
         /\ last'.route = "PATCH /api/users/:id/role"
         /\ last'.guard = "next"
         /\ last'.param = last.user.id
         /\ {id \in DOMAIN profiles : profiles[id].role = "admin"} = {last.user.id}
         /\ last'.role \in Roles \ {"admin"}
         /\ last'.failed = "none")
          => /\ last'.status = 400
             /\ last'.error = "Cannot demote the only admin user"
             /\ profiles' = profiles ]_vars

\* C22 witness: the only admin, beside a second profile, asked to become a
\* viewer and was refused.
C22_Witness ==
    /\ last.route = "PATCH /api/users/:id/role"
    /\ last.param = last.user.id
    /\ last.role = "viewer"
    /\ last.error = "Cannot demote the only admin user"
    /\ Cardinality(DOMAIN profiles) = 2
    /\ profiles[last.user.id].role = "admin"

\* ------------------------------------- two requests of /api/users at once
\* Two requests, each PATCH /api/users/:id/role or DELETE /api/users/:id,
\* sent with the token of a user, handled at once.  Each runs up to its
\* next await without interruption, so its steps are the database round
\* trips: getUserById of authenticateToken (requireRole and the handler's
\* checks follow at once), then for PATCH the admin count (when the caller
\* targets itself) and the update, for DELETE the select of the id and the
\* delete.  The store answers every call.  pc and last hold one value per
\* request.  The first user is an admin, the others have any role.
UsersRoutes == {"PATCH /api/users/:id/role", "DELETE /api/users/:id"}

InitAdmins ==
    /\ now = 0
    /\ \E roles \in [UserIds -> Roles] :
          /\ roles[1] = "admin"
          /\ profiles = [id \in UserIds |->
                           [username |-> Username(id), email |-> Email(id),
                            role |-> roles[id]]]
          /\ issued = {jwtSign(id, Username(id), roles[id]) : id \in UserIds}
    /\ apiKeys = {}
    /\ disclosed = {}
    /\ nextUserId = MaxUsers + 1
    /\ nextKeyId = 1
    /\ content = {}
    /\ tags = {}
    /\ nextContentId = 1
    /\ nextTagId = 1
    /\ pc = [p \in Procs |-> "start"]
    /\ \E token \in [Procs -> issued], route \in [Procs -> UsersRoutes],
          id \in [Procs -> UserIds], role \in [Procs -> Roles] :
            last = [p \in Procs |->
                      [Request(<<SchemeWord, token[p]>>, NoApiKey) EXCEPT
                          !.route = route[p], !.param = id[p],
                          !.role = IF route[p] = "DELETE /api/users/:id"
                                   THEN "" ELSE role[p]]]

\* authenticateToken (its getUserById answered), requireRole('admin'), and
\* the handler up to its first await.
UsersGate(p) ==
    LET g == authenticateToken(last[p], "none")
        authed == [last[p] EXCEPT !.user = g.user, !.authType = g.authType,
                                  !.next = g.next, !.status = g.status,
                                  !.error = g.error, !.ops = g.ops]
        req == [requireRole({"admin"}, authed) EXCEPT !.allowed = {"admin"}]
        self == req.user.id = req.param
    IN  /\ pc[p] = "start"
        /\ IF ~g.next
           THEN /\ last' = [last EXCEPT ![p] = authed]
                /\ pc' = [pc EXCEPT ![p] = "done"]
           ELSE IF req.guard = "stopped"
           THEN /\ last' = [last EXCEPT ![p] = req]
                /\ pc' = [pc EXCEPT ![p] = "done"]
           ELSE IF req.route = "DELETE /api/users/:id" /\ self
           THEN /\ last' = [last EXCEPT ![p] =
                              [req EXCEPT !.status = 400,
                                          !.error = "Cannot delete your own account"]]
                /\ pc' = [pc EXCEPT ![p] = "done"]
           ELSE /\ last' = [last EXCEPT ![p] = req]
                /\ pc' = [pc EXCEPT ![p] =
                            IF req.route = "DELETE /api/users/:id" THEN "fetch"
                            ELSE IF self THEN "count" ELSE "update"]
        /\ UNCHANGED <<profiles, apiKeys, issued, disclosed, nextUserId, nextKeyId, content, tags, nextContentId, nextTagId, now>>

\* PATCH on the caller's own id: select('id').eq('role', 'admin') answered.
UsersCount(p) ==
    /\ pc[p] = "count"
    /\ IF Cardinality(adminCount) = 1 /\ last[p].role # "admin"
       THEN /\ last' = [last EXCEPT
                          ![p].status = 400,
                          ![p].error = "Cannot demote the only admin user",
                          ![p].ops = last[p].ops \o <<"profiles.select">>]
            /\ pc' = [pc EXCEPT ![p] = "done"]
       ELSE /\ last' = [last EXCEPT
                          ![p].ops = last[p].ops \o <<"profiles.select">>]
            /\ pc' = [pc EXCEPT ![p] = "update"]
    /\ UNCHANGED <<profiles, apiKeys, issued, disclosed, nextUserId, nextKeyId, content, tags, nextContentId, nextTagId, now>>

\* PATCH: update({role}).eq('id', id) applied and answered.
UsersUpdate(p) ==
    /\ pc[p] = "update"
    /\ profiles' = updateRole(last[p].param, last[p].role)
    /\ last' = [last EXCEPT ![p].status = 200,
                            ![p].ops = last[p].ops \o <<"profiles.update">>]
    /\ pc' = [pc EXCEPT ![p] = "done"]
    /\ UNCHANGED <<apiKeys, issued, disclosed, nextUserId, nextKeyId, content, tags, nextContentId, nextTagId, now>>

\* DELETE: select('id').eq('id', id).single() answered.
UsersFetch(p) ==
    /\ pc[p] = "fetch"
    /\ IF last[p].param \notin DOMAIN profiles
       THEN /\ last' = [last EXCEPT
                          ![p].status = 404, ![p].error = "User not found",
                          ![p].ops = last[p].ops \o <<"profiles.select">>]
            /\ pc' = [pc EXCEPT ![p] = "done"]
       ELSE /\ last' = [last EXCEPT
                          ![p].ops = last[p].ops \o <<"profiles.select">>]
            /\ pc' = [pc EXCEPT ![p] = "delete"]
    /\ UNCHANGED <<profiles, apiKeys, issued, disclosed, nextUserId, nextKeyId, content, tags, nextContentId, nextTagId, now>>

\* DELETE: delete().eq('id', id) applied and answered.
UsersDelete(p) ==
    /\ pc[p] = "delete"
    /\ profiles' = deleteProfile(last[p].param)
    /\ apiKeys' = cascadeApiKeys(apiKeys, last[p].param)
    /\ last' = [last EXCEPT ![p].status = 200,
                            ![p].ops = last[p].ops \o <<"profiles.delete">>]
    /\ pc' = [pc EXCEPT ![p] = "done"]
    /\ UNCHANGED <<issued, disclosed, nextUserId, nextKeyId, content, tags, nextContentId, nextTagId, now>>

NextAdmins ==
    \/ \E p \in Procs : UsersGate(p)
    \/ \E p \in Procs : UsersCount(p)
    \/ \E p \in Procs : UsersUpdate(p)
    \/ \E p \in Procs : UsersFetch(p)
    \/ \E p \in Procs : UsersDelete(p)

SpecAdmins == InitAdmins /\ [][NextAdmins]_vars

\* C23: an admin always remains.  Starting with a profile of role admin,
\* every state reached by two interleaved requests of PATCH
\* /api/users/:id/role and DELETE /api/users/:id holds a profile of role
\* admin.
C23_AdminRemains ==
    \E id \in DOMAIN profiles : profiles[id].role = "admin"

\* --------------------------------------------- two registrations at once
\* Two POST /api/auth/register requests with well-formed bodies, handled at
\* once against an empty profiles table.  Each is split at its store round
\* trips: getUserByEmailOrUsername, getUserCount, createUser (bcrypt.hash
\* between the first two touches nothing).  The store answers every call;
\* an insert of a username or email that is already there may be taken or
\* refused, as nothing in the repository declares the table.  pc and last
\* hold one value per request, and last keeps the body beside the request.
InitRegisterRace ==
    /\ now = 0
    /\ profiles = <<>>
    /\ apiKeys = {}
    /\ issued = {}
    /\ disclosed = {}
    /\ nextUserId = 1
    /\ nextKeyId = 1
    /\ content = {}
    /\ tags = {}
    /\ nextContentId = 1
    /\ nextTagId = 1
    /\ pc = [p \in Procs |-> "start"]
    /\ \E i \in [Procs -> Identities], j \in [Procs -> Identities] :
          last = [p \in Procs |->
                    [req |-> [Request(<<>>, NoApiKey) EXCEPT
                                 !.route = "POST /api/auth/register"],
                     username |-> Username(i[p]), email |-> Email(j[p])]]

\* getUserByEmailOrUsername(email) answered: 409 if a user is found.
RegisterLookup(p) ==
    /\ pc[p] = "start"
    /\ IF getUserByEmailOrUsername(last[p].email) # 0
       THEN /\ last' = [last EXCEPT
                          ![p].req.status = 409,
                          ![p].req.error = "User with this email or username already exists",
                          ![p].req.ops = <<"getUserByEmailOrUsername">>]
            /\ pc' = [pc EXCEPT ![p] = "done"]
       ELSE /\ last' = [last EXCEPT ![p].req.ops = <<"getUserByEmailOrUsername">>]
            /\ pc' = [pc EXCEPT ![p] = "count"]
    /\ UNCHANGED <<profiles, apiKeys, issued, disclosed, nextUserId, nextKeyId, content, tags, nextContentId, nextTagId, now>>

\* getUserCount answered: the role is decided.
RegisterCount(p) ==
    /\ pc[p] = "count"
    /\ last' = [last EXCEPT
                  ![p].req.role = RegisterRole(getUserCount),
                  ![p].req.ops = last[p].req.ops \o <<"getUserCount">>]
    /\ pc' = [pc EXCEPT ![p] = "insert"]
    /\ UNCHANGED <<profiles, apiKeys, issued, disclosed, nextUserId, nextKeyId, content, tags, nextContentId, nextTagId, now>>

\* createUser applied and answered: 201 with a token, or (only for a
\* username or email that is already there) 500.
RegisterInsert(p) ==
    /\ pc[p] = "insert"
    /\ pc' = [pc EXCEPT ![p] = "done"]
    /\ \/ /\ profiles' = createUser(last[p].username, last[p].email, last[p].req.role)
          /\ nextUserId' = nextUserId + 1
          /\ issued' = issued \cup
                {jwtSign(nextUserId, last[p].username, last[p].req.role)}
          /\ last' = [last EXCEPT
                        ![p].req.status = 201,
                        ![p].req.param = nextUserId,
                        ![p].req.ops = last[p].req.ops \o <<"createUser">>]
       \/ /\ \E id \in DOMAIN profiles :
                \/ profiles[id].username = last[p].username
                \/ profiles[id].email = last[p].email
          /\ last' = [last EXCEPT
                        ![p].req.status = 500,
                        ![p].req.error = "Registration failed",
                        ![p].req.failed = "createUser",
                        ![p].req.ops = last[p].req.ops \o <<"createUser">>]
          /\ UNCHANGED <<profiles, issued, nextUserId>>
    /\ UNCHANGED <<apiKeys, disclosed, nextKeyId, content, tags, nextContentId, nextTagId, now>>

NextRegisterRace ==
    \/ Tick
    \/ \E p \in Procs : RegisterLookup(p)
    \/ \E p \in Procs : RegisterCount(p)
    \/ \E p \in Procs : RegisterInsert(p)

SpecRegisterRace == InitRegisterRace /\ [][NextRegisterRace]_vars

\* C24: one first user.  However two registrations against an empty table
\* interleave, at most one of the profiles they create has role admin.
C24_OneFirstAdmin ==
    Cardinality({id \in DOMAIN profiles : profiles[id].role = "admin"}) <= 1

\* ------------------------------------------------------ the content routes
\* routes/content.js (the second of the two copies in src/routes/auth.js,
\* lines 422-757).  A content row is [id, author_id, status, category,
\* featured, view_count]; title and body play no part in what the routes
\* decide.  A field a client did not send is NotSent.
Statuses == {"draft", "published"}
Categories == {"money", "business"}
NotSent == "undefined"
ContentIds == 1..MaxContent

\* supabase's null for .single() on no row.
NoContent ==
    [id |-> 0, author_id |-> 0, status |-> "", category |-> "",
     featured |-> FALSE, view_count |-> 0]

\* db.from('content').select('*').eq('id', id).single()
contentById(id) ==
    IF \E r \in content : r.id = id
    THEN CHOOSE r \in content : r.id = id
    ELSE NoContent

\* db_helpers.getContentWithDetails: the row with author:profiles(username,
\* id) embedded; author_id of the result is content.author?.id, undefined
\* when the author's profile is not there.
getContentWithDetails(id) ==
    LET row == contentById(id) IN
    IF row = NoContent THEN NoContent
    ELSE [row EXCEPT !.author_id =
                        IF row.author_id \in DOMAIN profiles
                        THEN row.author_id ELSE 0]

\* db_helpers.incrementViewCount: rpc('increment_view_count', {row_id: id}).
incrementViewCount(id) ==
    {IF r.id = id THEN [r EXCEPT !.view_count = r.view_count + 1] ELSE r :
        r \in content}

\* A draft check that lets every requester through.
mayViewAnyone(user, row) == TRUE

\* routes/content.js lines 485-490: a draft is shown to its author and to
\* an admin; anything else is shown to everyone.
mayView(user, row) ==
    ~(row.status = "draft"
      /\ (user = NoUser \/ (user.id # row.author_id /\ user.role # "admin")))

\* GET /api/content/:id: optionalAuth, then the handler.  The requests
\* carry no X-API-Key, which optionalAuth does not read.  When the rpc of
\* incrementViewCount answers an error the fallback evaluates supabase.sql,
\* which the client does not have, and the handler's catch answers 500.
GetContent ==
    \E authHeader \in AuthHeaders, apiKey \in {NoApiKey}, id \in ContentIds :
      \E g \in OptionalOutcomes(authHeader, apiKey) :
        LET route == "GET /api/content/:id"
            req == [Request(authHeader, apiKey) EXCEPT
                        !.user = g.user, !.authType = g.authType,
                        !.next = g.next, !.ops = g.ops]
            found == getContentWithDetails(id)
        IN  /\ pc = "idle"
            /\ now < MaxTime
            /\ now' = clock
            /\ \/ /\ last' = Respond(req, route, id, "", 500, "Failed to fetch content",
                                     <<"getContentWithDetails">>,
                                     "getContentWithDetails")
                  /\ UNCHANGED content
               \/ /\ found = NoContent
                  /\ last' = Respond(req, route, id, "", 404, "Content not found",
                                     <<"getContentWithDetails">>, "none")
                  /\ UNCHANGED content
               \/ /\ found # NoContent
                  /\ ~mayView(req.user, found)
                  /\ last' = Respond(req, route, id, "", 403, "Access denied",
                                     <<"getContentWithDetails">>, "none")
                  /\ UNCHANGED content
               \/ /\ found # NoContent
                  /\ mayView(req.user, found)
                  /\ last' = Respond(req, route, id, "", 500, "Failed to fetch content",
                                     <<"getContentWithDetails", "incrementViewCount">>,
                                     "incrementViewCount")
                  /\ UNCHANGED content
               \/ /\ found # NoContent
                  /\ mayView(req.user, found)
                  /\ content' = incrementViewCount(id)
                  /\ last' = [Respond(req, route, id, "", 200, "",
                                      <<"getContentWithDetails", "incrementViewCount">>,
                                      "none")
                                EXCEPT !.body = {found}]
            /\ UNCHANGED <<profiles, apiKeys, issued, disclosed, nextUserId, nextKeyId,
                           pc, tags, nextContentId, nextTagId>>

\* routes/content.js lines 465-470: every row the query returned is sent.
listed(user, items) == items

\* GET /api/content?status=&category=&author_id=&featured=: optionalAuth,
\* then the rows that match the filters; status defaults to 'published'.
\* The listing reads the clock (for the token) as the request before it
\* did.
ListContent ==
    \E authHeader \in AuthHeaders, apiKey \in {NoApiKey} :
      \E g \in OptionalOutcomes(authHeader, apiKey) :
        \E status \in Statuses \cup {NotSent}, category \in Categories \cup {NotSent},
           author_id \in UserIds \cup {0}, featured \in {"true", NotSent} :
        LET route == "GET /api/content"
            req == [Request(authHeader, apiKey) EXCEPT
                        !.user = g.user, !.authType = g.authType,
                        !.next = g.next, !.ops = g.ops]
            items == {r \in content :
                        /\ r.status = (IF status = NotSent THEN "published" ELSE status)
                        /\ category # NotSent => r.category = category
                        /\ author_id # 0 => r.author_id = author_id
                        /\ featured = "true" => r.featured}
        IN  /\ pc = "idle"
            /\ now < MaxTime
            /\ \/ last' = Respond(req, route, 0, "", 500, "Failed to fetch content",
                                  <<"content.select">>, "content.select")
               \/ last' = [Respond(req, route, 0, "", 200, "",
                                   <<"content.select">>, "none")
                             EXCEPT !.body = listed(req.user, items)]
            /\ UNCHANGED <<profiles, apiKeys, issued, disclosed, nextUserId, nextKeyId,
                           now, pc, content, tags, nextContentId, nextTagId>>

\* POST /api/content with a body {title, body, category, status} and no
\* tags or sources: requireRole('admin', 'contributor'), then the insert.
CreateContent ==
    LET route == "POST /api/content"
        req == Guarded(last, route, {"admin", "contributor"})
    IN  /\ pc = "authed"
        /\ nextContentId <= MaxContent
        /\ pc' = "idle"
        /\ \/ /\ req.guard = "stopped"
              /\ last' = req
              /\ UNCHANGED <<content, nextContentId>>
           \/ /\ req.guard = "next"
              /\ last' = Respond(req, route, 0, "", 500, "Failed to create content",
                                 <<"content.insert">>, "content.insert")
              /\ UNCHANGED <<content, nextContentId>>
           \/ /\ req.guard = "next"
              /\ \E status \in Statuses \cup {NotSent}, category \in Categories :
                    content' = content \cup
                        {[id |-> nextContentId, author_id |-> req.user.id,
                          status |-> IF status = NotSent THEN "published" ELSE status,
                          category |-> category, featured |-> FALSE,
                          view_count |-> 0]}
              /\ nextContentId' = nextContentId + 1
              /\ last' = Respond(req, route, nextContentId, "", 201, "",
                                 <<"content.insert">>, "none")
        /\ UNCHANGED <<profiles, apiKeys, issued, disclosed, nextUserId, nextKeyId,
                       now, tags, nextTagId>>

\* An ownership check that lets every contributor through.
mayEditAnyone(user, existing) == TRUE

\* routes/content.js lines 579 and 625: an admin, or the row's author.
mayEdit(user, existing) ==
    ~(user.role # "admin" /\ existing.author_id # user.id)

\* routes/content.js lines 583-588: the fields to update (NotSent: the
\* field is left out); featured only for an admin.
updatesOf(user, status, featured) ==
    [status |-> status,
     featured |-> IF user.role = "admin" THEN featured ELSE NotSent]

\* Object.keys(updates).length === 0
NoUpdates == [status |-> NotSent, featured |-> NotSent]

\* db.from('content').update(updates).eq('id', contentId); the body's
\* featured is JSON true or false.
contentUpdate(id, updates) ==
    {IF r.id # id THEN r
     ELSE [r EXCEPT
             !.status = IF updates.status # NotSent THEN updates.status
                        ELSE r.status,
             !.featured = IF updates.featured # NotSent
                          THEN updates.featured = "true"
                          ELSE r.featured] : r \in content}

\* PUT /api/content/:id with a body {status, featured}, each sent or not:
\* requireRole('admin', 'contributor'), then the handler.  A failing select
\* is answered 404 like a missing row.
UpdateContent ==
    LET route == "PUT /api/content/:id"
        req == Guarded(last, route, {"admin", "contributor"})
    IN  /\ pc = "authed"
        /\ pc' = "idle"
        /\ \/ /\ req.guard = "stopped"
              /\ last' = req
              /\ UNCHANGED content
           \/ /\ req.guard = "next"
              /\ \E id \in ContentIds, status \in Statuses \cup {NotSent},
                    featured \in {"true", "false", NotSent} :
                   LET existing == contentById(id)
                       updates == updatesOf(req.user, status, featured)
                   IN  \/ /\ last' = Respond(req, route, id, "", 404, "Content not found",
                                             <<"content.select">>, "content.select")
                          /\ UNCHANGED content
                       \/ /\ existing = NoContent
                          /\ last' = Respond(req, route, id, "", 404, "Content not found",
                                             <<"content.select">>, "none")
                          /\ UNCHANGED content
                       \/ /\ existing # NoContent
                          /\ ~mayEdit(req.user, existing)
                          /\ last' = Respond(req, route, id, "", 403,
                                             "You can only edit your own content",
                                             <<"content.select">>, "none")
                          /\ UNCHANGED content
                       \/ /\ existing # NoContent
                          /\ mayEdit(req.user, existing)
                          /\ updates = NoUpdates
                          /\ last' = Respond(req, route, id, "", 400, "No fields to update",
                                             <<"content.select">>, "none")
                          /\ UNCHANGED content
                       \/ /\ existing # NoContent
                          /\ mayEdit(req.user, existing)
                          /\ updates # NoUpdates
                          /\ last' = Respond(req, route, id, "", 500,
                                             "Failed to update content",
                                             <<"content.select", "content.update">>,
                                             "content.update")
                          /\ UNCHANGED content
                       \/ /\ existing # NoContent
                          /\ mayEdit(req.user, existing)
                          /\ updates # NoUpdates
                          /\ content' = contentUpdate(id, updates)
                          /\ last' = Respond(req, route, id, "", 200, "",
                                             <<"content.select", "content.update">>,
                                             "none")
        /\ UNCHANGED <<profiles, apiKeys, issued, disclosed, nextUserId, nextKeyId,
                       now, tags, nextContentId, nextTagId>>

\* DELETE /api/content/:id: requireRole('admin', 'contributor'), then the
\* handler.
DeleteContent ==
    LET route == "DELETE /api/content/:id"
        req == Guarded(last, route, {"admin", "contributor"})
    IN  /\ pc = "authed"
        /\ pc' = "idle"
        /\ \/ /\ req.guard = "stopped"
              /\ last' = req
              /\ UNCHANGED content
           \/ /\ req.guard = "next"
              /\ \E id \in ContentIds :
                   LET existing == contentById(id)
                   IN  \/ /\ last' = Respond(req, route, id, "", 404, "Content not found",
                                             <<"content.select">>, "content.select")
                          /\ UNCHANGED content
                       \/ /\ existing = NoContent
                          /\ last' = Respond(req, route, id, "", 404, "Content not found",
                                             <<"content.select">>, "none")
                          /\ UNCHANGED content
                       \/ /\ existing # NoContent
                          /\ ~mayEdit(req.user, existing)
                          /\ last' = Respond(req, route, id, "", 403,
                                             "You can only delete your own content",
                                             <<"content.select">>, "none")
                          /\ UNCHANGED content
                       \/ /\ existing # NoContent
                          /\ mayEdit(req.user, existing)
                          /\ last' = Respond(req, route, id, "", 500,
                                             "Failed to delete content",
                                             <<"content.select", "content.delete">>,
                                             "content.delete")
                          /\ UNCHANGED content
                       \/ /\ existing # NoContent
                          /\ mayEdit(req.user, existing)
                          /\ content' = {r \in content : r.id # id}
                          /\ last' = Respond(req, route, id, "", 200, "",
                                             <<"content.select", "content.delete">>,
                                             "none")
        /\ UNCHANGED <<profiles, apiKeys, issued, disclosed, nextUserId, nextKeyId,
                       now, tags, nextContentId, nextTagId>>

\* The store of the content specifications: MaxUsers profiles, the first
\* an admin, the second of any role, the others contributors, each with a
\* token.
InitContent ==
    /\ now = 0
    /\ \E roles \in [UserIds -> Roles] :
          /\ roles[1] = "admin"
          /\ \A id \in UserIds : id > 2 => roles[id] = "contributor"
          /\ profiles = [id \in UserIds |->
                           [username |-> Username(id), email |-> Email(id),
                            role |-> roles[id]]]
          /\ issued = {jwtSign(id, Username(id), roles[id]) : id \in UserIds}
    /\ apiKeys = {}
    /\ disclosed = {}
    /\ nextUserId = MaxUsers + 1
    /\ nextKeyId = 1
    /\ tags = {}
    /\ nextTagId = 1
    /\ pc = "idle"
    /\ last = NoRequest

\* The writing routes, from an empty content table.
InitContentWrite ==
    /\ InitContent
    /\ content = {}
    /\ nextContentId = 1

\* authenticateToken on a request without an X-API-Key header.
AuthenticateBearer ==
    /\ Authenticate
    /\ last'.apiKey = NoApiKey

\* POST /api/content whose body names the first category.
CreateContentMoney ==
    /\ CreateContent
    /\ \A r \in content' \ content : r.category = "money"

NextContentWrite ==
    \/ AuthenticateBearer
    \/ CreateContentMoney
    \/ UpdateContent
    \/ DeleteContent

SpecContentWrite == InitContentWrite /\ [][NextContentWrite]_vars

\* The reading routes, on a content table as POST, PUT and DELETE can
\* leave it: of the ids handed out the last ones may be deleted, the first
\* row has any author and status, the others are published, and no row
\* was seen.
InitContentRead ==
    /\ InitContent
    /\ nextContentId = MaxContent + 1
    /\ \E ids \in {1..k : k \in 0..MaxContent}, author \in UserIds,
          status \in Statuses :
            content = {[id |-> id,
                        author_id |-> IF id = 1 THEN author ELSE 1,
                        status |-> IF id = 1 THEN status ELSE "published",
                        category |-> IF id = 1 THEN "money" ELSE "business",
                        featured |-> id # 1, view_count |-> 0] : id \in ids}

\* GET /api/content/:id on a table that holds no row, or the first row
\* alone; the other ids have no row.
InitContentGet ==
    /\ InitContentRead
    /\ \A r \in content : r.id = 1

NextContentGet == GetContent

SpecContentGet == InitContentGet /\ [][NextContentGet]_vars

NextContentList == ListContent

SpecContentList == InitContentRead /\ [][NextContentList]_vars

\* The user a request's bearer token stands for at the time of the
\* request: the stored profile of a token that verifies, else nobody.
Requester(req) ==
    IF BearerValid(req)
    THEN [id |-> Bearer(req).userId,
          username |-> profiles[Bearer(req).userId].username,
          email |-> profiles[Bearer(req).userId].email,
          role |-> profiles[Bearer(req).userId].role]
    ELSE NoUser

\* The requester is the row's author or an admin.
Entitled(user, row) ==
    user # NoUser /\ (user.id = row.author_id \/ user.role = "admin")

\* C25: drafts are for their author and for admins.  On every
\* GET /api/content/:id: a draft is returned (200) only to a requester who
\* is its author or an admin; any other requester of a draft, anonymous or
\* authenticated, is answered 403 (the lookup of the row being answered)
\* and the content table, view counts included, is unchanged; an id with
\* no row is answered 404 and the table is unchanged.
C25_DraftsForAuthorAndAdmin ==
    [][ (last'.route = "GET /api/content/:id") =>
          LET row == contentById(last'.param)
              user == Requester(last')
          IN  /\ (row = NoContent /\ last'.failed = "none")
                    => (last'.status = 404 /\ content' = content)
              /\ (row.status = "draft" /\ last'.status = 200)
                    => (Entitled(user, row) /\ last'.body = {row})
              /\ (row.status = "draft" /\ ~Entitled(user, row)
                                       /\ last'.failed = "none")
                    => (last'.status = 403 /\ content' = content) ]_vars

\* C25 witness: a non-admin user with a valid token asked for another
\* user's draft and was answered 403.
C25_Witness ==
    /\ last.route = "GET /api/content/:id"
    /\ last.status = 403
    /\ last.user # NoUser /\ last.user.role # "admin"
    /\ contentById(last.param).status = "draft"
    /\ contentById(last.param).author_id # last.user.id
    /\ contentById(last.param).view_count = 0

\* C26: the list route never shows a draft to a stranger.  Every row with
\* status draft in the body of a 200 answer of GET /api/content is a row
\* whose author is the requester, or the requester is an admin, whatever
\* the status, category, author_id and featured parameters were.
C26_ListHidesDrafts ==
    (last.route = "GET /api/content" /\ last.status = 200)
        => \A r \in last.body :
              r.status = "draft" => Entitled(Requester(last), r)

WriteRoutes == {"PUT /api/content/:id", "DELETE /api/content/:id"}

\* C27: content is modified or deleted only by its author or by an admin.
\* On every PUT and DELETE /api/content/:id behind the gate: a viewer is
\* stopped by the role guard with 403; a caller who passed the guard, is
\* not an admin and is not the author of the existing row is answered 403
\* (the lookup being answered); both leave the content table unchanged.
\* On every step: a row that is changed or removed is the row a PUT or a
\* DELETE names, and the caller is its author or an admin; a row whose
\* featured field changes is changed by an admin.
C27_OnlyAuthorOrAdminWrites ==
    [][ /\ (pc = "authed" /\ last'.route \in WriteRoutes)
              => LET user == last'.user
                     row == contentById(last'.param)
                 IN  /\ user.role = "viewer"
                           => /\ last'.guard = "stopped"
                              /\ last'.status = 403
                              /\ content' = content
                     /\ (/\ last'.guard = "next"
                         /\ last'.failed = "none"
                         /\ row # NoContent
                         /\ user.role # "admin"
                         /\ row.author_id # user.id)
                           => /\ last'.status = 403
                              /\ content' = content
        /\ \A r \in content :
              r \notin content'
                 => /\ last'.route \in WriteRoutes
                    /\ last'.param = r.id
                    /\ last'.status = 200
                    /\ last'.user.role = "admin" \/ last'.user.id = r.author_id
        /\ \A r \in content : \A s \in content' :
              (s.id = r.id /\ s.featured # r.featured)
                 => /\ last'.route = "PUT /api/content/:id"
                    /\ last'.user.role = "admin" ]_vars

\* C27 witness: a contributor asked to change a row written by somebody
\* else and was answered 403; the row is there, as it was.
C27_Witness ==
    /\ last.route = "PUT /api/content/:id"
    /\ last.guard = "next"
    /\ last.status = 403
    /\ last.user.role = "contributor"
    /\ contentById(last.param) # NoContent
    /\ contentById(last.param).author_id # last.user.id
    /\ ~contentById(last.param).featured

\* ---------------------------------------------------------------------
\* Revocation (routes/api_keys.js DELETE /:id, db_helpers.deleteApiKey,
\* authenticateToken's key path) on a store with several keys: key k is
\* the row whose id is k and whose stored hash is Sha256(k).

\* The owner of the keys created before the first request: the first two
\* belong to the first user, the others to the second.
KeyOwner(k) == IF k <= 2 THEN 1 ELSE 2

\* MaxRaw keys were created and disclosed to their owners, MaxUsers users
\* are registered and hold a token each.
InitRevoke ==
    /\ now = 0
    /\ profiles = FilledProfiles
    /\ issued = {jwtSign(id, Username(id), RegisterRole(id - 1)) : id \in UserIds}
    /\ apiKeys = {[id |-> k, user_id |-> KeyOwner(k), key_hash |-> Sha256(k),
                   last_used_at |-> 0] : k \in RawKeys}
    /\ disclosed = {[key |-> k, id |-> k] : k \in RawKeys}
    /\ nextUserId = MaxUsers + 1
    /\ nextKeyId = MaxRaw + 1
    /\ content = {}
    /\ tags = {}
    /\ nextContentId = 1
    /\ nextTagId = 1
    /\ pc = "idle"
    /\ last = NoRequest

NextRevoke ==
    \/ Authenticate
    \/ GetMe
    \/ DeleteKey

SpecRevoke == InitRevoke /\ [][NextRevoke]_vars

\* The ids of the stored keys.
StoredIds(keys) == {r.id : r \in keys}

\* The raw keys that were disclosed and whose row is no longer stored.
Revoked == {d \in disclosed : d.id \notin StoredIds(apiKeys)}

\* C28: revocation is effective and scoped.  A DELETE /api/keys/:id
\* answered 200 removes the row of that id, which the caller owned, and no
\* other row; a removed row never comes back; and every authenticateToken
\* run on a request that presents an X-API-Key and no bearer token, the
\* store answering, rejects a revoked key with 401 'Invalid API key' and
\* lets every key that is still stored through as its owner.
C28_RevocationEffectiveAndScoped ==
    [][ /\ (last'.route = "DELETE /api/keys/:id" /\ last'.status = 200)
              => /\ \E r \in apiKeys : /\ r.id = last'.param
                                       /\ r.user_id = last'.user.id
                 /\ apiKeys' = {r \in apiKeys : r.id # last'.param}
        /\ \A d \in Revoked : d.id \notin StoredIds(apiKeys')
        /\ (/\ pc = "idle"
            /\ last'.route = ""
            /\ ~CarriesBearer(last')
            /\ last'.failed = "none")
              => \A d \in disclosed :
                    d.key = last'.apiKey
                       => IF d \in Revoked
                          THEN /\ ~last'.next
                               /\ last'.status = 401
                               /\ last'.error = "Invalid API key"
                          ELSE /\ last'.next
                               /\ last'.authType = "apikey"
                               /\ \E r \in apiKeys : /\ r.id = d.id
                                                     /\ r.user_id = last'.user.id
      ]_vars

\* C28 witness: a revoked key was presented alone and rejected with 401
\* 'Invalid API key', while another key of the same owner is stored and
\* has authenticated a request since it was created.
C28_Witness ==
    /\ last.route = ""
    /\ ~CarriesBearer(last)
    /\ last.status = 401
    /\ last.error = "Invalid API key"
    /\ \E d \in Revoked :
          /\ d.key = last.apiKey
          /\ \E r \in apiKeys : /\ r.user_id = KeyOwner(d.id)
                                /\ r.last_used_at > 0

\* ---------------------------------------------------------------------
\* Tags (db_helpers.getOrCreateTag and its three callers: routes/tags.js
\* POST /, routes/content.js POST / and POST /:id/tags).  A tag name is a
\* string of at most MaxName characters over an upper-case letter, its
\* lower-case form, a blank and a hyphen; a tags row is [id, name, slug].
Chars == {"A", "a", " ", "-"}
Names == UNION {[1..n -> Chars] : n \in 1..MaxName}

\* String.prototype.toLowerCase
toLowerCase(name) ==
    [i \in 1..Len(name) |-> IF name[i] = "A" THEN "a" ELSE name[i]]

RECURSIVE skipWhitespace(_)
\* The rest of a string after the whitespace run it starts with.
skipWhitespace(s) ==
    IF s # <<>> /\ Head(s) = " " THEN skipWhitespace(Tail(s)) ELSE s

RECURSIVE replaceWhitespace(_)
\* String.prototype.replace(/\s+/g, '-'): each whitespace run becomes one
\* hyphen.
replaceWhitespace(s) ==
    IF s = <<>> THEN <<>>
    ELSE IF Head(s) = " "
         THEN <<"-">> \o replaceWhitespace(skipWhitespace(s))
         ELSE <<Head(s)>> \o replaceWhitespace(Tail(s))

\* const slug = name.toLowerCase().replace(/\s+/g, '-')
slugOf(name) == replaceWhitespace(toLowerCase(name))

\* The routes that call getOrCreateTag, and what each answers when the
\* helper throws.
TagRoutes == {"POST /api/tags", "POST /api/content", "POST /api/content/:id/tags"}

TagError(route) ==
    CASE route = "POST /api/tags" -> "Failed to create tag"
      [] route = "POST /api/content" -> "Failed to create content"
      [] OTHER -> "Failed to add tags"

\* supabase.from('tags').select('*').eq('slug', slug)
tagsBySlug(slug) == {t \in tags : t.slug = slug}

\* Two handlers, each about to call getOrCreateTag once with a name of its
\* own, on an empty tags table; the store's round trips interleave freely.
InitTags ==
    /\ now = 0
    /\ profiles = <<>>
    /\ apiKeys = {}
    /\ issued = {}
    /\ disclosed = {}
    /\ nextUserId = 1
    /\ nextKeyId = 1
    /\ content = {}
    /\ tags = {}
    /\ nextContentId = 1
    /\ nextTagId = 1
    /\ pc = [p \in Procs |-> "select"]
    /\ \E name \in [Procs -> Names], route \in [Procs -> TagRoutes] :
          last = [p \in Procs |->
                    [route |-> route[p], name |-> name[p],
                     slug |-> slugOf(name[p]), tag |-> 0,
                     status |-> 0, error |-> ""]]

\* getOrCreateTag's select answered: .single() gives the row when there is
\* exactly one, and PGRST116 when there is none or more than one, which
\* leads to the insert.
TagSelect(p) ==
    /\ pc[p] = "select"
    /\ LET rows == tagsBySlug(last[p].slug)
       IN  IF Cardinality(rows) = 1
           THEN /\ last' = [last EXCEPT
                              ![p].tag = (CHOOSE t \in rows : TRUE).id,
                              ![p].status =
                                  IF last[p].route = "POST /api/content/:id/tags"
                                  THEN 200 ELSE 201]
                /\ pc' = [pc EXCEPT ![p] = "done"]
           ELSE /\ pc' = [pc EXCEPT ![p] = "insert"]
                /\ UNCHANGED last
    /\ UNCHANGED <<profiles, apiKeys, issued, disclosed, nextUserId, nextKeyId,
                   content, tags, nextContentId, nextTagId, now>>

\* getOrCreateTag's insert applied and answered: the new row is returned;
\* or, only when a row with the slug is already there, insertError (a
\* constraint of the table, if it has one) and the route's 500.
TagInsert(p) ==
    /\ pc[p] = "insert"
    /\ pc' = [pc EXCEPT ![p] = "done"]
    /\ \/ /\ tags' = tags \cup {[id |-> nextTagId, name |-> last[p].name,
                                 slug |-> last[p].slug]}
          /\ nextTagId' = nextTagId + 1
          /\ last' = [last EXCEPT
                        ![p].tag = nextTagId,
                        ![p].status =
                            IF last[p].route = "POST /api/content/:id/tags"
                            THEN 200 ELSE 201]
       \/ /\ tagsBySlug(last[p].slug) # {}
          /\ last' = [last EXCEPT
                        ![p].status = 500,
                        ![p].error = TagError(last[p].route)]
          /\ UNCHANGED <<tags, nextTagId>>
    /\ UNCHANGED <<profiles, apiKeys, issued, disclosed, nextUserId, nextKeyId,
                   content, nextContentId, now>>

NextTags ==
    \/ \E p \in Procs : TagSelect(p)
    \/ \E p \in Procs : TagInsert(p)

SpecTags == InitTags /\ [][NextTags]_vars

\* C29: get-or-create per slug.  However the calls interleave, the tags
\* table holds at most one tag per slug, every stored slug is the slug of
\* its name, and two calls with the same slug that returned a tag returned
\* the same id.
C29_OneTagPerSlug ==
    /\ \A t \in tags : t.slug = slugOf(t.name)
    /\ \A t, u \in tags : t.slug = u.slug => t.id = u.id
    /\ \A p, q \in Procs :
          (/\ pc[p] = "done" /\ pc[q] = "done"
           /\ last[p].tag # 0 /\ last[q].tag # 0
           /\ last[p].slug = last[q].slug)
             => last[p].tag = last[q].tag

====
